---- MODULE Spec2Model ----
(***************************************************************************)
(* WinCC OA log viewer: the multi-line event reassembler (LogParser) and   *)
(* the tailing engine (LogFileWatcher).                                    *)
(*                                                                         *)
(* Text is modelled as sequences of one-character strings, so that the     *)
(* regular expressions, trim(), toLowerCase() and parseInt() of the source *)
(* are computed on characters.  The empty string '' is <<>>.               *)
(***************************************************************************)
EXTENDS Integers, Sequences, FiniteSets, TLC

\* ------------------------------------------------------------------ text

Digits == {"0","1","2","3","4","5","6","7","8","9"}
DigitChars == <<"0","1","2","3","4","5","6","7","8","9">>
UpperLetters == {"A","B","C","D","E","F","G","H","I","J","K","L","M","N","O","P","Q","R","S","T","U","V","W","X","Y","Z"}
LowerLetters == {"a","b","c","d","e","f","g","h","i","j","k","l","m","n","o","p","q","r","s","t","u","v","w","x","y","z"}
CasePairs == {<<"A","a">>,<<"B","b">>,<<"C","c">>,<<"D","d">>,<<"E","e">>,<<"F","f">>,<<"G","g">>,<<"H","h">>,<<"I","i">>,<<"J","j">>,<<"K","k">>,<<"L","l">>,<<"M","m">>,<<"N","n">>,<<"O","o">>,<<"P","p">>,<<"Q","q">>,<<"R","r">>,<<"S","s">>,<<"T","t">>,<<"U","u">>,<<"V","v">>,<<"W","w">>,<<"X","x">>,<<"Y","y">>,<<"Z","z">>}
\* \w, \s and the characters "." does not match
WordChars == Digits \cup UpperLetters \cup LowerLetters \cup {"_"}
WhiteSpace == {" ", "\t", "\n", "\r"}
LineTerminators == {"\n", "\r"}
NoChars == {}

toLowerCase(s) == [i \in 1..Len(s) |-> IF s[i] \in UpperLetters THEN (CHOOSE p \in CasePairs : p[1] = s[i])[2] ELSE s[i]]
toUpperCase(s) == [i \in 1..Len(s) |-> IF s[i] \in LowerLetters THEN (CHOOSE p \in CasePairs : p[2] = s[i])[1] ELSE s[i]]

\* index just past the maximal run of characters of class C that starts at i
RECURSIVE RunEnd(_, _, _)
RunEnd(s, i, C) == IF i > Len(s) \/ s[i] \notin C THEN i ELSE RunEnd(s, i + 1, C)

\* index of the first character of the maximal run of class C that ends at i
RECURSIVE RunStart(_, _, _)
RunStart(s, i, C) == IF i < 1 \/ s[i] \notin C THEN i + 1 ELSE RunStart(s, i - 1, C)

\* String.prototype.trim
trim(s) == LET a == RunEnd(s, 1, WhiteSpace) IN IF a > Len(s) THEN <<>> ELSE SubSeq(s, a, RunStart(s, Len(s), WhiteSpace) - 1)

startsWith(s, prefix) == Len(s) >= Len(prefix) /\ SubSeq(s, 1, Len(prefix)) = prefix
substring(s, n) == SubSeq(s, n + 1, Len(s))
includes(s, sub) == \E i \in 1..(Len(s) - Len(sub) + 1) : SubSeq(s, i, i + Len(sub) - 1) = sub
\* text occurs in s at index i
At(s, i, text) == i >= 1 /\ i + Len(text) - 1 <= Len(s) /\ SubSeq(s, i, i + Len(text) - 1) = text
HasNo(s, C) == \A i \in 1..Len(s) : s[i] \notin C

\* parseInt(digits, 10) of a non-empty run of decimal digits
RECURSIVE parseInt(_)
parseInt(d) == IF d = <<>> THEN 0 ELSE 10 * parseInt(SubSeq(d, 1, Len(d) - 1)) + ((CHOOSE k \in 1..10 : DigitChars[k] = d[Len(d)]) - 1)

\* "#" stands for \d, any other character for itself
HasShape(s, i, shape) == i + Len(shape) - 1 <= Len(s) /\ \A k \in 1..Len(shape) : IF shape[k] = "#" THEN s[i + k - 1] \in Digits ELSE s[i + k - 1] = shape[k]
DateShape == <<"#","#","#","#",".","#","#",".","#","#">>
TimeShape == <<"#","#",":","#","#",":","#","#",".","#","#","#">>

\* JavaScript null and undefined
Null == [null |-> TRUE]
Undefined == [undefined |-> TRUE]

\* ------------------------------------------------------------- LogParser

\* a switch on the token as it is written
normalizeSeverityExact(severity) ==
    CASE severity = <<"I","N","F","O">> -> "INFO"
      [] severity = <<"W","A","R","N","I","N","G">> -> "WARNING"
      [] severity = <<"E","R","R","O","R">> -> "ERROR"
      [] severity = <<"S","E","V","E","R","E">> -> "SEVERE"
      [] severity = <<"D","E","B","U","G">> -> "DEBUG"
      [] OTHER -> "OTHER"

\* LogParser.normalizeSeverity
normalizeSeverity(severity) ==
    LET upper == toUpperCase(severity)
    IN CASE upper = <<"I","N","F","O">> -> "INFO"
         [] upper = <<"W","A","R","N","I","N","G">> -> "WARNING"
         [] upper = <<"E","R","R","O","R">> -> "ERROR"
         [] upper = <<"S","E","V","E","R","E">> -> "SEVERE"
         [] upper = <<"D","E","B","U","G">> -> "DEBUG"
         [] OTHER -> "OTHER"

\* rest.match(/^\s*(\d+(?:\/\w+)?),\s*(.*)$/): the message group, or Null
restMatch(rest) ==
    LET j1 == RunEnd(rest, 1, WhiteSpace)
        j2 == RunEnd(rest, j1, Digits)
        w  == RunEnd(rest, j2 + 1, WordChars)
        j3 == IF At(rest, j2, <<"/">>) /\ w > j2 + 1 THEN w ELSE j2
        j4 == RunEnd(rest, j3 + 1, WhiteSpace)
    IN IF j2 > j1 /\ At(rest, j3, <<",">>) /\ HasNo(substring(rest, j4 - 1), LineTerminators)
       THEN substring(rest, j4 - 1)
       ELSE Null

\* LogParser.parseMainLine: the regex
\* /^(\w+)\s+\((\d+)\),\s+(\d{4}\.\d{2}\.\d{2}\s+\d{2}:\d{2}:\d{2}\.\d{3}),\s+(\w+),\s+(\w+),\s+(.+)$/
\* is scanned left to right (its classes \w, \s, \d and literals never overlap, so the
\* greedy runs are forced); the last \s+ gives back one character when nothing follows it.
parseMainLine(line) ==
    LET n   == Len(line)
        i1  == RunEnd(line, 1, WordChars)
        i2  == RunEnd(line, i1, WhiteSpace)
        i3  == RunEnd(line, i2 + 1, Digits)
        i4  == RunEnd(line, i3 + 2, WhiteSpace)
        i5  == i4 + Len(DateShape)
        i6  == RunEnd(line, i5, WhiteSpace)
        i7  == i6 + Len(TimeShape)
        i8  == RunEnd(line, i7 + 1, WhiteSpace)
        i9  == RunEnd(line, i8, WordChars)
        i10 == RunEnd(line, i9 + 1, WhiteSpace)
        i11 == RunEnd(line, i10, WordChars)
        i12 == RunEnd(line, i11 + 1, WhiteSpace)
        r   == IF i12 <= n THEN i12 ELSE n
        rest == SubSeq(line, r, n)
        matched ==
            /\ i1 > 1 /\ i2 > i1
            /\ At(line, i2, <<"(">>) /\ i3 > i2 + 1 /\ At(line, i3, <<")", ",">>)
            /\ i4 > i3 + 2
            /\ HasShape(line, i4, DateShape) /\ i6 > i5 /\ HasShape(line, i6, TimeShape)
            /\ At(line, i7, <<",">>) /\ i8 > i7 + 1
            /\ i9 > i8 /\ At(line, i9, <<",">>) /\ i10 > i9 + 1
            /\ i11 > i10 /\ At(line, i11, <<",">>) /\ i12 > i11 + 1
            /\ r > i11 + 1 /\ HasNo(rest, LineTerminators)
        identifier == SubSeq(line, 1, i1 - 1)
        timestamp  == SubSeq(line, i4, i7 - 1)
        scope      == SubSeq(line, i8, i9 - 1)
        severity   == SubSeq(line, i10, i11 - 1)
    IN IF ~matched THEN Null
       ELSE IF restMatch(rest) = Null THEN Null
       ELSE [identifier |-> trim(identifier),
             timestamp  |-> trim(timestamp),
             scope      |-> trim(scope),
             severity   |-> normalizeSeverity(trim(severity)),
             message    |-> trim(restMatch(rest)),
             metadata   |-> <<>>,
             rawLines   |-> <<>>]

\* trimmed.match(/^(\d+):\s+(.+?)\s+at\s+(.+):(\d+)$/): the frame, or Null.
\* (\d+)$ after the greedy (.+): forces the colon in front of the trailing digits.  In
\* between, f, g, h, q are where the function starts, where it ends, where "at" stands
\* and where the path starts; backtracking prefers the longest first \s+, then the
\* shortest function, then the longest second and third \s+.
stackMatch(trimmed) ==
    LET n  == Len(trimmed)
        d1 == RunEnd(trimmed, 1, Digits)
        k  == RunStart(trimmed, n, Digits)
        c  == k - 1
        F  == (d1 + 2)..RunEnd(trimmed, d1 + 1, WhiteSpace)
        G  == {g \in (d1 + 3)..c : trimmed[g] \in WhiteSpace}
        H  == {h \in (d1 + 4)..c : At(trimmed, h, <<"a", "t">>)}
        Q  == {q \in (d1 + 7)..(c - 1) : trimmed[q - 1] \in WhiteSpace}
        V  == {x \in [f : F, g : G, h : H, q : Q] :
                 /\ x.f < x.g /\ x.g < x.h /\ x.h + 2 < x.q
                 /\ HasNo(SubSeq(trimmed, x.f, x.g - 1), LineTerminators)
                 /\ RunEnd(trimmed, x.g, WhiteSpace) >= x.h
                 /\ RunEnd(trimmed, x.h + 2, WhiteSpace) >= x.q
                 /\ HasNo(SubSeq(trimmed, x.q, c - 1), LineTerminators)}
        Better(x, y) ==
            \/ x.f > y.f
            \/ x.f = y.f /\ x.g < y.g
            \/ x.f = y.f /\ x.g = y.g /\ x.h > y.h
            \/ x.f = y.f /\ x.g = y.g /\ x.h = y.h /\ x.q >= y.q
        m  == CHOOSE x \in V : \A y \in V : Better(x, y)
    IN IF d1 > 1 /\ At(trimmed, d1, <<":">>) /\ k <= n /\ c > d1 /\ At(trimmed, c, <<":">>) /\ V # {}
       THEN [index        |-> parseInt(SubSeq(trimmed, 1, d1 - 1)),
             functionName |-> trim(SubSeq(trimmed, m.f, m.g - 1)),
             filePath     |-> trim(SubSeq(trimmed, m.q, c - 1)),
             line         |-> parseInt(SubSeq(trimmed, k, n))]
       ELSE Null

\* message.match(/^(.+?),\s*(.+?),\s*([^,]+),\s*Line:\s*(\d+)/): the groups, or Null.
\* c1, c2, c3 are the commas that end the three groups: the lazy groups take the first
\* c1 and then the first c2 that let the rest match, and c3 is the comma next after c2
\* ([^,]+ holds no comma).  The \s* in front of a group only moves white space that
\* trim() removes from the group anyway.
syntaxMatch(message) ==
    LET n      == Len(message)
        commas == {i \in 1..n : message[i] = ","}
        tail(c3) ==
            LET e  == RunEnd(message, c3 + 1, WhiteSpace)
                e2 == RunEnd(message, e + 5, WhiteSpace)
            IN [ok |-> At(message, e, <<"L","i","n","e",":">>) /\ RunEnd(message, e2, Digits) > e2,
                digits |-> SubSeq(message, e2, RunEnd(message, e2, Digits) - 1)]
        c3of(c2) == CHOOSE c \in commas : c > c2 /\ \A d \in commas : d > c2 => c <= d
        V == {x \in commas \X commas :
                /\ x[1] >= 2 /\ x[2] >= x[1] + 2
                /\ HasNo(SubSeq(message, 1, x[2] - 1), LineTerminators)
                /\ \E c \in commas : c > x[2]
                /\ c3of(x[2]) >= x[2] + 2
                /\ tail(c3of(x[2])).ok}
        m == CHOOSE x \in V : \A y \in V : x[1] < y[1] \/ (x[1] = y[1] /\ x[2] <= y[2])
    IN IF V # {}
       THEN [errorType   |-> SubSeq(message, 1, m[1] - 1),
             errorDetail |-> SubSeq(message, m[1] + 1, m[2] - 1),
             filePath    |-> SubSeq(message, m[2] + 1, c3of(m[2]) - 1),
             line        |-> tail(c3of(m[2])).digits]
       ELSE Null

\* obj[key] = value on a JavaScript object (a function whose domain is its own keys)
SetKey(obj, key, value) == [k \in (DOMAIN obj) \cup {key} |-> IF k = key THEN value ELSE obj[k]]
HasKey(obj, key) == key \in DOMAIN obj

\* A LogParser is [buffer, currentEvent, stacktraceMode]
NewLogParser == [buffer |-> <<>>, currentEvent |-> Null, stacktraceMode |-> FALSE]

\* mutant of pushFrame: the frame is put in front
unshiftFrame(stacktrace, entry) == <<entry>> \o stacktrace

\* this.currentEvent.metadata.stacktrace!.push({...}) (logParser.ts, 119)
pushFrame(stacktrace, entry) == Append(stacktrace, entry)

\* mutant of syntaxSubject: the regex is applied to the continuation line
syntaxSubjectLine(p, trimmed) == trimmed

\* the string the syntax-error regex is applied to (logParser.ts, 133)
syntaxSubject(p, trimmed) == p.currentEvent.message

\* mutant of stacktraceHeader: a header keeps the frames captured so far
stacktraceHeaderKeeps(p) ==
    [p EXCEPT !.stacktraceMode = TRUE,
              !.currentEvent.metadata = IF HasKey(p.currentEvent.metadata, "stacktrace") THEN p.currentEvent.metadata
                                        ELSE SetKey(p.currentEvent.metadata, "stacktrace", <<>>)]

\* the Stacktrace: header (logParser.ts, 107-111)
stacktraceHeader(p) ==
    [p EXCEPT !.stacktraceMode = TRUE,
              !.currentEvent.metadata = SetKey(p.currentEvent.metadata, "stacktrace", <<>>)]

\* mutant of stackModeOther: the line goes to metadata.raw
stackModeOtherToRaw(p, trimmed) ==
    [p EXCEPT !.currentEvent.metadata = SetKey(p.currentEvent.metadata, "raw", trimmed)]

\* in stack-capture mode a line that is no frame: the return at logParser.ts, 126
stackModeOther(p, trimmed) == p

\* LogParser.parseMetadataLine
parseMetadataLine(p, line) ==
    IF p.currentEvent = Null THEN p
    ELSE
    LET trimmed == trim(line)
        ev      == p.currentEvent
        meta    == ev.metadata
        syntax  == syntaxMatch(syntaxSubject(p, trimmed))
        lineContent == trim(substring(trimmed, 5))
        lineEnd == RunEnd(lineContent, 1, Digits)
    IN IF trimmed = <<"S","t","a","c","k","t","r","a","c","e",":">>
         THEN stacktraceHeader(p)
       ELSE IF p.stacktraceMode
         THEN IF stackMatch(trimmed) # Null
              THEN [p EXCEPT !.currentEvent.metadata = SetKey(meta, "stacktrace", pushFrame(meta["stacktrace"], stackMatch(trimmed)))]
              ELSE stackModeOther(p, trimmed)
       ELSE IF ev.message # <<>> /\ includes(toLowerCase(ev.message), <<"s","y","n","t","a","x"," ","e","r","r","o","r">>) /\ syntax # Null
         THEN [p EXCEPT !.currentEvent.message = trim(syntax.errorType) \o <<","," ">> \o trim(syntax.errorDetail),
                        !.currentEvent.metadata = SetKey(SetKey(meta, "library", trim(syntax.filePath)), "line", parseInt(syntax.line))]
       ELSE IF startsWith(trimmed, <<"S","c","r","i","p","t",":">>)
         THEN [p EXCEPT !.currentEvent.metadata = SetKey(meta, "script", trim(substring(trimmed, 7)))]
       ELSE IF startsWith(trimmed, <<"L","i","b","r","a","r","y",":">>)
         THEN [p EXCEPT !.currentEvent.metadata = SetKey(meta, "library", trim(substring(trimmed, 8)))]
       ELSE IF startsWith(trimmed, <<"L","i","n","e",":">>)
         THEN IF lineEnd > 1
              THEN [p EXCEPT !.currentEvent.metadata = SetKey(meta, "line", parseInt(SubSeq(lineContent, 1, lineEnd - 1)))]
              ELSE p
       ELSE IF Len(trimmed) > 0
         THEN IF ~HasKey(meta, "raw") \/ meta["raw"] = <<>>
              THEN [p EXCEPT !.currentEvent.metadata = SetKey(meta, "raw", trimmed)]
              ELSE [p EXCEPT !.currentEvent.metadata = SetKey(meta, "raw", meta["raw"] \o <<"\n">> \o trimmed)]
       ELSE p

\* value || fallback on strings
OrElse(value, fallback) == IF value = <<>> THEN fallback ELSE value

\* mutant of rawLinesOf: the (empty) rawLines of the event under construction
rawLinesOfEvent(p) == p.currentEvent.rawLines

\* rawLines: [...this.buffer] (logParser.ts, 198)
rawLinesOf(p) == p.buffer

\* mutant of finalizeEvent: the finalized event stays open
finalizeEventKeepsOpen(p) ==
    IF p.currentEvent = Null \/ p.currentEvent.identifier = <<>>
    THEN [parser |-> [p EXCEPT !.currentEvent = Null, !.buffer = <<>>], event |-> Null]
    ELSE [parser |-> p,
          event  |-> [identifier |-> p.currentEvent.identifier,
                      timestamp  |-> OrElse(p.currentEvent.timestamp, <<>>),
                      scope      |-> OrElse(p.currentEvent.scope, <<"U","N","K","N","O","W","N">>),
                      severity   |-> IF p.currentEvent.severity = "" THEN "OTHER" ELSE p.currentEvent.severity,
                      message    |-> OrElse(p.currentEvent.message, <<>>),
                      metadata   |-> IF Cardinality(DOMAIN p.currentEvent.metadata) > 0 THEN p.currentEvent.metadata ELSE Undefined,
                      rawLines   |-> rawLinesOf(p)]]

\* mutant of finalizeEvent: the buffer is not emptied
finalizeEventKeepsBuffer(p) ==
    IF p.currentEvent = Null \/ p.currentEvent.identifier = <<>>
    THEN [parser |-> [p EXCEPT !.currentEvent = Null, !.buffer = <<>>], event |-> Null]
    ELSE [parser |-> [buffer |-> p.buffer, currentEvent |-> Null, stacktraceMode |-> FALSE],
          event  |-> [identifier |-> p.currentEvent.identifier,
                      timestamp  |-> OrElse(p.currentEvent.timestamp, <<>>),
                      scope      |-> OrElse(p.currentEvent.scope, <<"U","N","K","N","O","W","N">>),
                      severity   |-> IF p.currentEvent.severity = "" THEN "OTHER" ELSE p.currentEvent.severity,
                      message    |-> OrElse(p.currentEvent.message, <<>>),
                      metadata   |-> IF Cardinality(DOMAIN p.currentEvent.metadata) > 0 THEN p.currentEvent.metadata ELSE Undefined,
                      rawLines   |-> rawLinesOf(p)]]

\* LogParser.finalizeEvent: [parser |-> the parser afterwards, event |-> the event or Null]
finalizeEvent(p) ==
    IF p.currentEvent = Null \/ p.currentEvent.identifier = <<>>
    THEN [parser |-> [p EXCEPT !.currentEvent = Null, !.buffer = <<>>], event |-> Null]
    ELSE [parser |-> [buffer |-> <<>>, currentEvent |-> Null, stacktraceMode |-> FALSE],
          event  |-> [identifier |-> p.currentEvent.identifier,
                      timestamp  |-> OrElse(p.currentEvent.timestamp, <<>>),
                      scope      |-> OrElse(p.currentEvent.scope, <<"U","N","K","N","O","W","N">>),
                      severity   |-> IF p.currentEvent.severity = "" THEN "OTHER" ELSE p.currentEvent.severity,
                      message    |-> OrElse(p.currentEvent.message, <<>>),
                      metadata   |-> IF Cardinality(DOMAIN p.currentEvent.metadata) > 0 THEN p.currentEvent.metadata ELSE Undefined,
                      rawLines   |-> rawLinesOf(p)]]

\* mutant of parseLine: a main line completes the event it starts at once
parseLineEager(p, line) ==
    LET mainLineMatch == parseMainLine(line)
        started == [buffer |-> <<line>>, currentEvent |-> mainLineMatch, stacktraceMode |-> FALSE]
    IN IF mainLineMatch # Null
       THEN [parser |-> finalizeEvent(started).parser, completedEvents |-> <<finalizeEvent(started).event>>]
       ELSE IF p.currentEvent # Null
       THEN [parser |-> parseMetadataLine([p EXCEPT !.buffer = Append(p.buffer, line)], line),
             completedEvents |-> <<>>]
       ELSE [parser |-> p, completedEvents |-> <<>>]

\* mutant of parseLine: the stack-capture flag survives a main line
parseLineKeepsMode(p, line) ==
    LET mainLineMatch == parseMainLine(line)
        fin == finalizeEvent(p)
    IN IF mainLineMatch # Null
       THEN [parser |-> [buffer |-> <<line>>, currentEvent |-> mainLineMatch, stacktraceMode |-> p.stacktraceMode],
             completedEvents |-> IF p.currentEvent # Null /\ fin.event # Null THEN <<fin.event>> ELSE <<>>]
       ELSE IF p.currentEvent # Null
       THEN [parser |-> parseMetadataLine([p EXCEPT !.buffer = Append(p.buffer, line)], line),
             completedEvents |-> <<>>]
       ELSE [parser |-> p, completedEvents |-> <<>>]

\* mutant of parseLine: a line fed while no event is open is kept in the buffer
parseLineBuffersOrphan(p, line) ==
    LET mainLineMatch == parseMainLine(line)
        fin == finalizeEvent(p)
    IN IF mainLineMatch # Null
       THEN [parser |-> [buffer |-> <<line>>, currentEvent |-> mainLineMatch, stacktraceMode |-> FALSE],
             completedEvents |-> IF p.currentEvent # Null /\ fin.event # Null THEN <<fin.event>> ELSE <<>>]
       ELSE IF p.currentEvent # Null
       THEN [parser |-> parseMetadataLine([p EXCEPT !.buffer = Append(p.buffer, line)], line),
             completedEvents |-> <<>>]
       ELSE [parser |-> [p EXCEPT !.buffer = Append(p.buffer, line)], completedEvents |-> <<>>]

\* mutant of parseLine: a blank line completes the open event
parseLineBlankCompletes(p, line) ==
    LET mainLineMatch == parseMainLine(line)
        fin == finalizeEvent(p)
    IN IF mainLineMatch # Null
       THEN [parser |-> [buffer |-> <<line>>, currentEvent |-> mainLineMatch, stacktraceMode |-> FALSE],
             completedEvents |-> IF p.currentEvent # Null /\ fin.event # Null THEN <<fin.event>> ELSE <<>>]
       ELSE IF p.currentEvent # Null /\ trim(line) = <<>>
       THEN [parser |-> fin.parser, completedEvents |-> <<fin.event>>]
       ELSE IF p.currentEvent # Null
       THEN [parser |-> parseMetadataLine([p EXCEPT !.buffer = Append(p.buffer, line)], line),
             completedEvents |-> <<>>]
       ELSE [parser |-> p, completedEvents |-> <<>>]

\* LogParser.parseLine: [parser |-> the parser afterwards, completedEvents |-> what it returns]
parseLine(p, line) ==
    LET mainLineMatch == parseMainLine(line)
        fin == finalizeEvent(p)
    IN IF mainLineMatch # Null
       THEN [parser |-> [buffer |-> <<line>>, currentEvent |-> mainLineMatch, stacktraceMode |-> FALSE],
             completedEvents |-> IF p.currentEvent # Null /\ fin.event # Null THEN <<fin.event>> ELSE <<>>]
       ELSE IF p.currentEvent # Null
       THEN [parser |-> parseMetadataLine([p EXCEPT !.buffer = Append(p.buffer, line)], line),
             completedEvents |-> <<>>]
       ELSE [parser |-> p, completedEvents |-> <<>>]

\* LogParser.flush
flush(p) == IF p.currentEvent # Null THEN finalizeEvent(p) ELSE [parser |-> p, event |-> Null]

\* ------------------------------------------------- a LogParser on its own

\* the lines a caller feeds
mainWarning      == <<"U","I"," ","(","4",")",","," ","2","0","2","5",".","1","1",".","1","6"," ","1","8",":","5","6",":","2","6",".","9","7","2",","," ","C","T","R","L",","," ","W","A","R","N","I","N","G",","," ","5",","," ","w","a","r","n">>
mainSyntaxInline == <<"U","I"," ","(","4",")",","," ","2","0","2","5",".","1","1",".","1","6"," ","1","8",":","5","6",":","2","6",".","9","7","3",","," ","C","T","R","L",","," ","s","e","v","e","r","e",","," ","7","3","/","c","t","r","l",","," ","S","y","n","t","a","x"," ","e","r","r","o","r",","," ","'","}","'"," ","u","n","e","x","p","e","c","t","e","d",","," ","/","a","/","b",".","c","t","l",","," ","L","i","n","e",":"," ","2","9">>
mainSyntax       == <<"U","I"," ","(","4",")",","," ","2","0","2","5",".","1","1",".","1","6"," ","1","8",":","5","6",":","2","6",".","9","7","4",","," ","C","T","R","L",","," ","F","A","T","A","L",","," ","7","3",","," ","S","y","n","t","a","x"," ","e","r","r","o","r">>
notMain          == <<"U","I"," ","(","4",")",","," ","2","0","2","5",".","1","1",".","1","6",","," ","C","T","R","L",","," ","I","N","F","O",","," ","5",","," ","b","a","d">>
lineScript       == <<" "," "," "," ","S","c","r","i","p","t",":"," ","f","o","o",".","c","t","l">>
lineScriptEmpty  == <<"S","c","r","i","p","t",":">>
lineLibrary      == <<"L","i","b","r","a","r","y",":"," ","/","l",".","c","t","l">>
lineLibraryEmpty == <<" "," ","L","i","b","r","a","r","y",":"," "," ">>
lineLine         == <<"L","i","n","e",":"," ","1","0",","," ","x">>
lineLineNoNumber == <<"L","i","n","e",":"," ","x">>
lineStacktrace   == <<" "," "," "," ","S","t","a","c","k","t","r","a","c","e",":">>
lineFrame1       == <<"1",":"," ","v","o","i","d"," ","f","(",")"," ","a","t"," ","a",".","c","t","l",":","5">>
lineFrame2       == <<" "," "," "," "," "," "," "," ","2",":"," ","v","o","i","d"," ","g","(",")"," ","a","t"," ","b",".","c","t","l",":","9">>
lineFree         == <<"f","r","e","e"," ","t","e","x","t">>
lineBlank        == <<" "," "," ">>
lineSyntax       == <<"S","y","n","t","a","x"," ","e","r","r","o","r",","," ","'","}","'"," ","u","n","e","x","p","e","c","t","e","d",","," ","/","a","/","b",".","c","t","l",","," ","L","i","n","e",":"," ","2","9">>

MainLines == {mainWarning, mainSyntaxInline, mainSyntax}
ContinuationLines == {notMain, lineScript, lineScriptEmpty, lineLibrary, lineLibraryEmpty, lineLine, lineLineNoNumber,
                      lineStacktrace, lineFrame1, lineFrame2, lineFree, lineBlank, lineSyntax}
Lines == MainLines \cup ContinuationLines

\* the lines a caller still feeds to an event that has MaxRawLines lines already
LongLines == {lineStacktrace, lineFrame1, lineFrame2, lineScript}

\* bounds: the longest event (main line and continuations) a caller feeds from Lines, and
\* the longest it feeds when the further lines are from LongLines
MaxRawLines == 3
MaxLongLines == 4

\* ------------------------------------------------------ the log directory

\* the watched directory and the files that may be in it.  Two of the names differ
\* only in case, which a case-sensitive file system allows.
LogPath     == <<"/","P","r","o","j","/","l","o","g">>
PrimaryName == <<"P","V","S","S","_","I","I",".","l","o","g">>
GenericName == <<"a",".","l","o","g">>
UpperName   == <<"A",".","l","o","g">>
TextName    == <<"n",".","t","x","t">>
LogFiles    == {PrimaryName, GenericName, UpperName}
FileNames   == LogFiles \cup {TextName}

\* what each file holds once it is fully written; a file is only ever appended to
Content(name) ==
    CASE name = PrimaryName -> mainWarning \o <<"\n">> \o lineScript \o <<"\r", "\n">> \o mainSyntax \o <<"\n">>
      [] name = GenericName -> <<"x","\n","y","\n">>
      [] name = UpperName   -> <<"p","p","\n","q","\n">>
      [] name = TextName    -> <<"t">>

\* the sizes a file has after each write to it (a write may end inside a line)
WritePoints(name) ==
    CASE name = PrimaryName -> {Len(mainWarning) + 1, Len(mainWarning) + 10, Len(Content(PrimaryName))}
      [] name = GenericName -> {2, 4}
      [] name = UpperName   -> {5}
      [] name = TextName    -> {1}

\* size of a file that does not exist
Absent == -1

\* path.join(dir, file) and path.basename(path) on POSIX paths
pathJoin(dir, file) == dir \o <<"/">> \o file
basename(path) ==
    LET slashes == {i \in 1..Len(path) : path[i] = "/"}
    IN IF slashes = {} THEN path ELSE substring(path, CHOOSE i \in slashes : \A j \in slashes : j <= i)
endsWith(s, suffix) == Len(s) >= Len(suffix) /\ SubSeq(s, Len(s) - Len(suffix) + 1, Len(s)) = suffix
\* the canonical key of a path: path.resolve leaves an absolute normalized path as it is
KeyOf(path) == toLowerCase(path)

\* bounds
MaxStreams == 2
MaxReads == 2
MaxCalls == 3    \* calls of start(), stop(), pause() and resume() in a run

VARIABLES
    parser,     \* the LogParser: [buffer, currentEvent, stacktraceMode]
    lastCall,   \* "none", "parseLine" or "flush": the last public method called
    lastLine,   \* the argument of the last parseLine
    returned,   \* what the last call returned, as a sequence of events
    segment,    \* history: the lines fed since the last main line (with it), <<>> after flush
    fileLines,  \* the lines of the text that a caller is about to pass to parseLogFile
    fileEvents  \* [events |-> what parseLogFile returned for that text], Null before the call

VARIABLES
    fileSize,       \* the directory: file name -> size in bytes, Absent when there is no such file
    isInitialized,  \* LogFileWatcher.isInitialized
    isPaused,       \* LogFileWatcher.isPaused
    watcher,        \* LogFileWatcher.watcher is defined (the subscription exists)
    filePositions,  \* LogFileWatcher.filePositions: key -> offset
    parsers,        \* LogFileWatcher.parsers: key -> LogParser
    startPc,        \* "idle", or "await" while start() is suspended at its await
    streams,        \* the read streams in flight, in the order they were created
    lastEnd,        \* history: the last run of an 'end' handler since the last start(), or Null
    delivered,      \* history: file name -> the bytes passed to line processing since the last start()
    reads,          \* history: number of read streams created
    calls,          \* history: number of calls of start(), stop(), pause() and resume()
    inventory,      \* history: file name -> size, for the files listed by the last start()
    pausedBytes,    \* history: file name -> the bytes appended while the engine was paused
    lastError,      \* history: what the 'error' handler ran for if the stream that finished last failed, else Null
    startError,     \* history: the last call of start() threw the error of the directory listing
    heldAtStop,     \* history: the events that the parsers held open when stop() was called last
    ignored,        \* history: handleFileChange has returned at its first check since the last start()
    seen,           \* history: the files not listed by the last start() that a notification was handled for since
    lastEmitted,    \* history: file name -> the line number of the event delivered last since the last start(), 0 if none
    fedMain,        \* history: number of main lines fed to the parser of the primary file since the last start()
    emitted         \* history: number of events delivered for the primary file since the last start()

VARIABLES
    currentPanel,      \* LogViewerPanel.currentPanel is defined
    panelLogPath,      \* the logPath parameter of the constructor of the current panel
    panelWatcher,      \* LogViewerPanel._watcher: Undefined or [logPath, started, paused, reading]
    currentLogPath,    \* LogViewerPanel._currentLogPath
    lastArgument,      \* history: the argument of the last execution of the command, Null before the first
    explicitPaths,     \* history: the log paths that executions of the command passed since the panel was created
    staleReads,        \* the reads in flight of watchers that startWatching has stopped and replaced
    lastPost,          \* history: Null, or [stopped |-> the watcher whose event was posted to the webview last was stopped]
    lastSetPaused      \* history: Null, or [paused |-> the value of the last 'setPaused' message of the current panel]

callVars == <<parser, lastCall, lastLine, returned, segment>>
parserVars == <<callVars, fileLines, fileEvents>>
watcherVars == <<fileSize, isInitialized, isPaused, watcher, filePositions, parsers, startPc, streams,
                 lastEnd, delivered, reads, calls, inventory, pausedBytes, seen, lastEmitted, lastError, startError, heldAtStop, ignored, fedMain, emitted>>
panelVars == <<currentPanel, panelLogPath, panelWatcher, currentLogPath, lastArgument, explicitPaths, staleReads, lastPost, lastSetPaused>>
vars == <<parserVars, watcherVars, panelVars>>

IsMainLine(line) == parseMainLine(line) # Null

ParserInit ==
    /\ parser = NewLogParser
    /\ lastCall = "none"
    /\ lastLine = <<>>
    /\ returned = <<>>
    /\ segment = <<>>
    /\ fileLines = <<>>
    /\ fileEvents = Null

\* new LogFileWatcher(logPath, onNewEvent), in a directory where the primary file and
\* one other log file already hold their first lines
WatcherInit ==
    /\ fileSize = [name \in FileNames |-> IF name = UpperName THEN Absent ELSE CHOOSE s \in WritePoints(name) : \A t \in WritePoints(name) : s <= t]
    /\ isInitialized = FALSE
    /\ isPaused = FALSE
    /\ watcher = FALSE
    /\ filePositions = <<>>
    /\ parsers = <<>>
    /\ startPc = "idle"
    /\ streams = <<>>
    /\ lastEnd = Null
    /\ delivered = [name \in FileNames |-> {}]
    /\ reads = 0
    /\ calls = 0
    /\ inventory = <<>>
    /\ pausedBytes = [name \in FileNames |-> {}]
    /\ seen = {}
    /\ ignored = FALSE
    /\ heldAtStop = {}
    /\ startError = FALSE
    /\ lastError = Null
    /\ lastEmitted = [name \in FileNames |-> 0]
    /\ fedMain = 0
    /\ emitted = 0

\* the extension is activated and no panel is open
PanelInit ==
    /\ currentPanel = FALSE
    /\ panelLogPath = Undefined
    /\ panelWatcher = Undefined
    /\ currentLogPath = Undefined
    /\ lastArgument = Null
    /\ explicitPaths = {}
    /\ staleReads = 0
    /\ lastPost = Null
    /\ lastSetPaused = Null

Init == ParserInit /\ WatcherInit /\ PanelInit

\* a caller's parser.parseLine(line)
ParseLineCall(line) ==
    /\ \/ IsMainLine(line)
       \/ Len(segment) < MaxRawLines
       \/ Len(segment) < MaxLongLines /\ line \in LongLines
    /\ parser' = parseLine(parser, line).parser
    /\ returned' = parseLine(parser, line).completedEvents
    /\ lastCall' = "parseLine"
    /\ lastLine' = line
    /\ segment' = IF IsMainLine(line) THEN <<line>>
                  ELSE IF segment # <<>> THEN Append(segment, line)
                  ELSE segment
    /\ UNCHANGED <<fileLines, fileEvents, watcherVars, panelVars>>

\* a caller's parser.flush()
FlushCall ==
    /\ parser' = flush(parser).parser
    /\ returned' = IF flush(parser).event = Null THEN <<>> ELSE <<flush(parser).event>>
    /\ lastCall' = "flush"
    /\ lastLine' = lastLine
    /\ segment' = <<>>
    /\ UNCHANGED <<fileLines, fileEvents, watcherVars, panelVars>>

ParserNext == (\E line \in Lines : ParseLineCall(line)) \/ FlushCall

ParserSpec == Init /\ [][ParserNext]_vars

\* content.split('\n')
RECURSIVE splitNewline(_)
splitNewline(s) ==
    LET i == RunEnd(s, 1, {s[k] : k \in 1..Len(s)} \ {"\n"})
    IN IF i > Len(s) THEN <<s>> ELSE <<SubSeq(s, 1, i - 1)>> \o splitNewline(substring(s, i))

\* the loop of parseLogFile over the lines (logParser.ts, 238-241):
\* [parser |-> the parser afterwards, events |-> the events pushed, in order]
RECURSIVE feedLines(_, _)
feedLines(p, lines) ==
    IF lines = <<>> THEN [parser |-> p, events |-> <<>>]
    ELSE LET r == parseLine(p, Head(lines))
             more == feedLines(r.parser, Tail(lines))
         IN [parser |-> more.parser, events |-> r.completedEvents \o more.events]

\* mutant of parseLogFile: the last event is forgotten
parseLogFileNoFlush(content) == feedLines(NewLogParser, splitNewline(content)).events

\* parseLogFile
parseLogFile(content) ==
    LET fed == feedLines(NewLogParser, splitNewline(content))
        lastEvent == flush(fed.parser).event
    IN IF lastEvent # Null THEN Append(fed.events, lastEvent) ELSE fed.events

\* the lines a caller puts into the text of a log file
FileLines == {mainWarning, mainSyntax, lineScript, lineStacktrace, lineFree, lineBlank, <<>>}

\* bound: the number of lines of the text
MaxFileLines == 3

\* lines joined with "\n"
RECURSIVE joinLines(_)
joinLines(lines) ==
    IF lines = <<>> THEN <<>>
    ELSE IF Len(lines) = 1 THEN lines[1]
    ELSE lines[1] \o <<"\n">> \o joinLines(Tail(lines))

\* a caller adds a line to the text
AddLine(line) ==
    /\ fileEvents = Null
    /\ Len(fileLines) < MaxFileLines
    /\ fileLines' = Append(fileLines, line)
    /\ UNCHANGED <<callVars, fileEvents, watcherVars, panelVars>>

\* a caller's parseLogFile(content)
ParseFile ==
    /\ fileEvents = Null
    /\ fileEvents' = [events |-> parseLogFile(joinLines(fileLines))]
    /\ UNCHANGED <<callVars, fileLines, watcherVars, panelVars>>

FileNext == (\E line \in FileLines : AddLine(line)) \/ ParseFile

FileSpec == Init /\ [][FileNext]_vars

\* ------------------------------------------------------- LogFileWatcher

\* buffer.split(/\r?\n/)
RECURSIVE split(_)
split(s) ==
    LET i == RunEnd(s, 1, {s[k] : k \in 1..Len(s)} \ {"\n"})
        piece == IF i > 1 /\ i <= Len(s) /\ s[i - 1] = "\r" THEN SubSeq(s, 1, i - 2) ELSE SubSeq(s, 1, i - 1)
    IN IF i > Len(s) THEN <<s>> ELSE <<piece>> \o split(substring(s, i))

\* lines.filter(line => line.length > 0)
RECURSIVE nonEmpty(_)
nonEmpty(lines) ==
    IF lines = <<>> THEN <<>>
    ELSE IF Len(Head(lines)) > 0 THEN <<Head(lines)>> \o nonEmpty(Tail(lines))
    ELSE nonEmpty(Tail(lines))

\* new Date().toISOString(): the wall clock is not modelled
Now == <<"2","0","2","6","-","0","1","-","0","1","T","0","0",":","0","0",":","0","0",".","0","0","0","Z">>

\* parseGenericLogLine
parseGenericLogLine(line, fileName) ==
    IF trim(line) = <<>> THEN Null
    ELSE [identifier |-> <<"G","E","N","E","R","I","C">>,
          timestamp  |-> Now,
          scope      |-> <<"O","T","H","E","R">>,
          severity   |-> "OTHER",
          message    |-> line,
          metadata   |-> [raw |-> <<"F","r","o","m",":"," ">> \o fileName],
          rawLines   |-> <<line>>]

\* the loop over the lines of the primary file (logFileWatcher.ts, 170-178):
\* [parser |-> the parser afterwards, events |-> the events emitted, in order]
RECURSIVE parseLines(_, _)
parseLines(p, lines) ==
    IF lines = <<>> THEN [parser |-> p, events |-> <<>>]
    ELSE IF trim(Head(lines)) # <<>>
    THEN LET r == parseLine(p, Head(lines))
             more == parseLines(r.parser, Tail(lines))
         IN [parser |-> more.parser, events |-> r.completedEvents \o more.events]
    ELSE parseLines(p, Tail(lines))

\* the loop over the lines of any other file (logFileWatcher.ts, 184-192)
RECURSIVE genericLines(_, _)
genericLines(lines, fileName) ==
    IF lines = <<>> THEN <<>>
    ELSE IF trim(Head(lines)) # <<>> /\ parseGenericLogLine(Head(lines), fileName) # Null
    THEN <<parseGenericLogLine(Head(lines), fileName)>> \o genericLines(Tail(lines), fileName)
    ELSE genericLines(Tail(lines), fileName)

\* fs.readdirSync(logPath), filtered by file.endsWith('.log')
ListedLogs == {name \in FileNames : fileSize[name] # Absent /\ endsWith(name, <<".","l","o","g">>)}

\* LogFileWatcher.start up to its await: initializeFilePositions sets key -> size for every
\* listed log file.  readdirSync promises no order, so of two files with one key either
\* may be the one set last.
Start ==
    /\ ~isInitialized /\ startPc = "idle" /\ calls < MaxCalls
    /\ LET keys == {KeyOf(pathJoin(LogPath, name)) : name \in ListedLogs}
       IN \E last \in [keys -> ListedLogs] :
            /\ \A key \in keys : KeyOf(pathJoin(LogPath, last[key])) = key
            /\ filePositions' = [key \in (DOMAIN filePositions) \cup keys |->
                                    IF key \in keys THEN fileSize[last[key]] ELSE filePositions[key]]
    /\ startPc' = "await"
    /\ calls' = calls + 1
    /\ inventory' = [name \in ListedLogs |-> fileSize[name]]
    /\ seen' = {}
    /\ lastEmitted' = [name \in FileNames |-> 0]
    /\ lastError' = Null
    /\ startError' = FALSE
    /\ ignored' = FALSE
    /\ lastEnd' = Null
    /\ delivered' = [name \in FileNames |-> {}]
    /\ UNCHANGED <<fileSize, isInitialized, isPaused, watcher, parsers, streams, reads, pausedBytes, heldAtStop>>
    /\ fedMain' = 0
    /\ emitted' = 0
    /\ UNCHANGED <<parserVars, panelVars>>

\* LogFileWatcher.start after its await: the flag is set and the watcher subscribed
StartResume ==
    /\ startPc = "await"
    /\ isInitialized' = TRUE
    /\ watcher' = TRUE
    /\ startPc' = "idle"
    /\ UNCHANGED <<fileSize, isPaused, filePositions, parsers, streams, lastEnd, delivered, reads, calls, inventory, pausedBytes, seen, lastEmitted, lastError, startError, heldAtStop, ignored>>
    /\ UNCHANGED <<fedMain, emitted>>
    /\ UNCHANGED <<parserVars, panelVars>>

\* a start() that logs the error of the listing and goes on
StartFailsContinues ==
    /\ ~isInitialized /\ startPc = "idle" /\ calls < MaxCalls
    /\ calls' = calls + 1
    /\ startError' = TRUE
    /\ isInitialized' = TRUE
    /\ watcher' = TRUE
    /\ UNCHANGED <<fileSize, isPaused, filePositions, parsers, startPc, streams, lastEnd, delivered, reads, inventory, pausedBytes, seen, lastEmitted, lastError, heldAtStop, ignored>>
    /\ UNCHANGED <<fedMain, emitted>>
    /\ UNCHANGED <<parserVars, panelVars>>

\* LogFileWatcher.start() when fs.readdirSync throws: initializeFilePositions logs and
\* rethrows, the await in start() throws, and start() ends there
StartFails ==
    /\ ~isInitialized /\ startPc = "idle" /\ calls < MaxCalls
    /\ calls' = calls + 1
    /\ startError' = TRUE
    /\ UNCHANGED <<fileSize, isInitialized, isPaused, watcher, filePositions, parsers, startPc, streams, lastEnd, delivered, reads, inventory, pausedBytes, seen, lastEmitted, lastError, heldAtStop, ignored>>
    /\ UNCHANGED <<fedMain, emitted>>
    /\ UNCHANGED <<parserVars, panelVars>>

\* LogFileWatcher.pause
Pause ==
    /\ calls < MaxCalls
    /\ isPaused' = TRUE
    /\ calls' = calls + 1
    /\ UNCHANGED <<fileSize, isInitialized, watcher, filePositions, parsers, startPc, streams, lastEnd, delivered, reads, inventory, pausedBytes, seen, lastEmitted, lastError, startError, heldAtStop, ignored>>
    /\ UNCHANGED <<fedMain, emitted>>
    /\ UNCHANGED <<parserVars, panelVars>>

\* LogFileWatcher.resume
Resume ==
    /\ calls < MaxCalls
    /\ isPaused' = FALSE
    /\ calls' = calls + 1
    /\ UNCHANGED <<fileSize, isInitialized, watcher, filePositions, parsers, startPc, streams, lastEnd, delivered, reads, inventory, pausedBytes, seen, lastEmitted, lastError, startError, heldAtStop, ignored>>
    /\ UNCHANGED <<fedMain, emitted>>
    /\ UNCHANGED <<parserVars, panelVars>>

\* a stop() that leaves the parsers in the map
StopKeepsParsers ==
    /\ calls < MaxCalls
    /\ calls' = calls + 1
    /\ isInitialized' = FALSE
    /\ watcher' = FALSE
    /\ filePositions' = <<>>
    /\ parsers' = parsers
    /\ heldAtStop' = {parsers[key].currentEvent : key \in {k \in DOMAIN parsers : parsers[k].currentEvent # Null}}
    /\ UNCHANGED <<fileSize, isPaused, startPc, streams, lastEnd, delivered, reads, inventory, pausedBytes, seen, lastEmitted, lastError, startError, ignored>>
    /\ UNCHANGED <<fedMain, emitted>>
    /\ UNCHANGED <<parserVars, panelVars>>

\* LogFileWatcher.stop
Stop ==
    /\ calls < MaxCalls
    /\ calls' = calls + 1
    /\ isInitialized' = FALSE
    /\ watcher' = FALSE
    /\ filePositions' = <<>>
    /\ parsers' = <<>>
    /\ heldAtStop' = {parsers[key].currentEvent : key \in {k \in DOMAIN parsers : parsers[k].currentEvent # Null}}
    /\ UNCHANGED <<fileSize, isPaused, startPc, streams, lastEnd, delivered, reads, inventory, pausedBytes, seen, lastEmitted, lastError, startError, ignored>>
    /\ UNCHANGED <<fedMain, emitted>>
    /\ UNCHANGED <<parserVars, panelVars>>

\* a handleFileChange without the check of isInitialized
FileChangeBranchUnguarded(name) ==
    LET key == KeyOf(pathJoin(LogPath, name))
    IN IF ~HasKey(filePositions, key) THEN "first-seen"
       ELSE IF fileSize[name] <= filePositions[key] THEN "no-growth"
       ELSE IF isPaused THEN "paused"
       ELSE "read"

\* a handleFileChange without the check of isPaused
FileChangeBranchNoPause(name) ==
    LET key == KeyOf(pathJoin(LogPath, name))
    IN IF ~isInitialized THEN "ignore"
       ELSE IF ~HasKey(filePositions, key) THEN "first-seen"
       ELSE IF fileSize[name] <= filePositions[key] THEN "no-growth"
       ELSE "read"

\* a handleFileChange that checks isPaused before it compares the size with the offset
FileChangeBranchPausedFirst(name) ==
    LET key == KeyOf(pathJoin(LogPath, name))
    IN IF ~isInitialized THEN "ignore"
       ELSE IF ~HasKey(filePositions, key) THEN "first-seen"
       ELSE IF isPaused THEN "paused"
       ELSE IF fileSize[name] <= filePositions[key] THEN "no-growth"
       ELSE "read"

\* what handleFileChange does before it returns, for a file that exists
FileChangeBranch(name) ==
    LET key == KeyOf(pathJoin(LogPath, name))
    IN IF ~isInitialized THEN "ignore"
       ELSE IF ~HasKey(filePositions, key) THEN "first-seen"
       ELSE IF fileSize[name] <= filePositions[key] THEN "no-growth"
       ELSE IF isPaused THEN "paused"
       ELSE "read"

\* LogFileWatcher.handleFileChange(filePath) up to the creation of the read stream
HandleFileChange(name) ==
    LET resolvedPath == pathJoin(LogPath, name)
        key          == KeyOf(resolvedPath)
        currentSize  == fileSize[name]
        branch       == FileChangeBranch(name)
    IN /\ startPc = "idle"
       /\ fileSize[name] # Absent
       /\ branch = "read" => Len(streams) < MaxStreams /\ reads < MaxReads
       /\ filePositions' = IF branch \in {"first-seen", "paused"} THEN SetKey(filePositions, key, currentSize) ELSE filePositions
       /\ streams' = IF branch = "read"
                     THEN Append(streams, [resolvedPath |-> resolvedPath, key |-> key, lastPosition |-> filePositions[key],
                                           currentSize |-> currentSize, buffer |-> <<>>])
                     ELSE streams
       /\ reads' = IF branch = "read" THEN reads + 1 ELSE reads
       /\ ignored' = (ignored \/ branch = "ignore")
       /\ seen' = IF branch = "ignore" \/ HasKey(inventory, name) THEN seen ELSE seen \cup {name}
       /\ UNCHANGED <<fileSize, isInitialized, isPaused, watcher, parsers, startPc, lastEnd, delivered, calls, inventory, pausedBytes, lastEmitted, lastError, startError, heldAtStop>>
       /\ UNCHANGED <<fedMain, emitted>>
       /\ UNCHANGED <<parserVars, panelVars>>

\* stream.on('data'): the stream has read on to the end the file has now
StreamData(i) ==
    LET s    == streams[i]
        name == basename(s.resolvedPath)
        pos  == s.lastPosition + Len(s.buffer)
    IN /\ startPc = "idle"
       /\ pos < fileSize[name]
       /\ streams' = [streams EXCEPT ![i].buffer = s.buffer \o SubSeq(Content(name), pos + 1, fileSize[name])]
       /\ UNCHANGED <<fileSize, isInitialized, isPaused, watcher, filePositions, parsers, startPc, lastEnd, delivered, reads, calls, inventory, pausedBytes, seen, lastEmitted, lastError, startError, heldAtStop, ignored>>
       /\ UNCHANGED <<fedMain, emitted>>
       /\ UNCHANGED <<parserVars, panelVars>>

\* history: the number of the line of the file that opened an event (its first raw line);
\* every line of a file is different from the others
LineNumber(name, event) ==
    LET lines == split(Content(name))
        at == {k \in 1..Len(lines) : lines[k] = event.rawLines[1]}
    IN IF at = {} THEN 0 ELSE CHOOSE k \in at : TRUE

\* mutant of EndResult: every log file is given a parser
EndResultAllParsed(s) ==
    LET lines    == nonEmpty(split(s.buffer))
        p        == IF HasKey(parsers, s.key) THEN parsers[s.key] ELSE NewLogParser
        parsed   == parseLines(p, lines)
    IN [events |-> parsed.events, parsers |-> SetKey(parsers, s.key, parsed.parser)]

\* what the 'end' handler of a stream does: the events it emits, the parser and the offset it sets
EndResult(s) ==
    LET lines    == nonEmpty(split(s.buffer))
        fileName == basename(s.resolvedPath)
        p        == IF HasKey(parsers, s.key) THEN parsers[s.key] ELSE NewLogParser
        parsed   == parseLines(p, lines)
    IN IF fileName = PrimaryName
       THEN [events |-> parsed.events, parsers |-> SetKey(parsers, s.key, parsed.parser)]
       ELSE [events |-> genericLines(lines, fileName), parsers |-> parsers]

\* history: the main lines among the lines that a read of the primary file can hold (a
\* read starts and ends at sizes that the file has had)
PrimaryMainLines ==
    LET sizes == WritePoints(PrimaryName) \cup {0}
        parts == UNION {{split(SubSeq(Content(PrimaryName), a + 1, b))[k] : k \in 1..Len(split(SubSeq(Content(PrimaryName), a + 1, b)))} :
                          <<a, b>> \in {pair \in sizes \X sizes : pair[1] < pair[2]}}
    IN {line \in parts : trim(line) # <<>> /\ parseMainLine(line) # Null}

\* history: the number of main lines among the lines of a buffer that are fed to a parser
MainLinesIn(buffer) ==
    LET lines == split(buffer)
    IN Cardinality({k \in 1..Len(lines) : lines[k] \in PrimaryMainLines})

RemoveAt(seq, i) == SubSeq(seq, 1, i - 1) \o SubSeq(seq, i + 1, Len(seq))

\* stream.on('end'): the stream found the end of the file; its handler runs
StreamEnd(i) ==
    LET s == streams[i]
    IN /\ startPc = "idle"
       /\ s.lastPosition + Len(s.buffer) >= s.currentSize
       /\ parsers' = EndResult(s).parsers
       /\ filePositions' = SetKey(filePositions, s.key, s.currentSize)
       /\ streams' = RemoveAt(streams, i)
       /\ lastEnd' = [name |-> basename(s.resolvedPath), from |-> s.lastPosition, to |-> s.lastPosition + Len(s.buffer),
                       currentSize |-> s.currentSize, initialized |-> isInitialized,
                       before |-> delivered[basename(s.resolvedPath)], events |-> EndResult(s).events]
       /\ lastEmitted' = IF lastEnd'.events = <<>> THEN lastEmitted
                         ELSE [lastEmitted EXCEPT ![lastEnd'.name] = LineNumber(lastEnd'.name, lastEnd'.events[Len(lastEnd'.events)])]
       /\ delivered' = [delivered EXCEPT ![basename(s.resolvedPath)] = @ \cup ((s.lastPosition + 1)..(s.lastPosition + Len(s.buffer)))]
       /\ UNCHANGED <<fileSize, isInitialized, isPaused, watcher, startPc, reads, calls, inventory, pausedBytes, seen, startError, heldAtStop, ignored>>
       /\ lastError' = Null
       /\ fedMain' = IF lastEnd'.name = PrimaryName THEN fedMain + MainLinesIn(s.buffer) ELSE fedMain
       /\ emitted' = IF lastEnd'.name = PrimaryName THEN emitted + Len(lastEnd'.events) ELSE emitted
       /\ UNCHANGED <<parserVars, panelVars>>

\* stream.on('error'): the read failed, with or without data read before; the handler logs,
\* and a failed stream emits no 'end'
StreamError(i) ==
    LET s == streams[i]
    IN /\ startPc = "idle"
       /\ streams' = RemoveAt(streams, i)
       /\ lastError' = [name |-> basename(s.resolvedPath), key |-> s.key, from |-> s.lastPosition, currentSize |-> s.currentSize]
       /\ UNCHANGED <<fileSize, isInitialized, isPaused, watcher, filePositions, parsers, startPc, lastEnd, delivered, reads, calls, inventory, pausedBytes, seen, lastEmitted, startError, heldAtStop, ignored>>
       /\ UNCHANGED <<fedMain, emitted>>
       /\ UNCHANGED <<parserVars, panelVars>>

\* another process appends to a log file (or creates it with its first bytes); what
\* the files hold before the first start() is fixed by Init
Write(name) ==
    LET old == IF fileSize[name] = Absent THEN 0 ELSE fileSize[name]
        new == CHOOSE s \in WritePoints(name) : s > fileSize[name] /\ \A t \in WritePoints(name) : t > fileSize[name] => s <= t
    IN /\ DOMAIN inventory # {}
       /\ \E s \in WritePoints(name) : s > fileSize[name]
       /\ fileSize' = [fileSize EXCEPT ![name] = new]
       /\ pausedBytes' = IF isPaused /\ isInitialized
                         THEN [pausedBytes EXCEPT ![name] = @ \cup ((old + 1)..new)]
                         ELSE pausedBytes
       /\ UNCHANGED <<isInitialized, isPaused, watcher, filePositions, parsers, startPc, streams, lastEnd, delivered, reads, calls, inventory, seen, lastEmitted, lastError, startError, heldAtStop, ignored>>
       /\ UNCHANGED <<fedMain, emitted>>
       /\ UNCHANGED <<parserVars, panelVars>>

Next ==
    \/ Start
    \/ StartFails
    \/ StartResume
    \/ Pause
    \/ Resume
    \/ Stop
    \/ \E name \in LogFiles : HandleFileChange(name)
    \/ \E i \in 1..Len(streams) : StreamData(i)
    \/ \E i \in 1..Len(streams) : StreamEnd(i)
    \/ \E i \in 1..Len(streams) : StreamError(i)
    \/ \E name \in LogFiles : Write(name)

Spec == Init /\ [][Next]_vars

\* ------------------------------------------- the command and the viewer panel

\* a JavaScript string value; '' is falsy, undefined is falsy
Str(text) == [text |-> text]
Truthy(value) == value # Undefined /\ value.text # <<>>

\* getDefaultLogPath() where os.platform() is not 'win32'
DefaultLogPath == Str(<<"/","h","o","m","e","/","t","e","s","t","u","s","/","w","i","n","c","c","_","p","r","o","j","/","D","e","v","E","n","v","/","D","e","v","E","n","v","/","l","o","g">>)

\* the arguments a caller of the command passes
PathA == Str(<<"/","a","/","l","o","g">>)
PathB == Str(<<"/","b","/","l","o","g">>)
Arguments == {Undefined, Str(<<>>), PathA, PathB}

\* bound: the reads of stopped watchers that are in flight at a time
MaxStaleReads == 2

\* startWatching returns at its first check: this path is being watched
AlreadyWatching(logPath) == currentLogPath = logPath /\ panelWatcher # Undefined

\* new LogFileWatcher(logPath, callback) and its start(): isPaused is false, no read is
\* in flight, and isInitialized is set unless start() throws
NewWatcher(logPath, ok) == [logPath |-> logPath, started |-> ok, paused |-> FALSE, reading |-> FALSE]

\* LogViewerPanel.startWatching(logPath): [watcher, currentLogPath, stale] afterwards; ok
\* says whether start() of the new LogFileWatcher resolves or throws.  The watcher it
\* replaces is stopped and dropped; stale counts the read of it that is still in flight.
\* start() lists the directory with synchronous calls, so that no other handler runs
\* between the two halves of startWatching.
startWatching(logPath, ok) ==
    IF AlreadyWatching(logPath)
    THEN [watcher |-> panelWatcher, currentLogPath |-> currentLogPath, stale |-> staleReads]
    ELSE [watcher |-> NewWatcher(logPath, ok),
          currentLogPath |-> IF ok THEN logPath ELSE Undefined,
          stale |-> IF panelWatcher # Undefined /\ panelWatcher.reading THEN staleReads + 1 ELSE staleReads]

\* LogViewerPanel.createOrShow(extensionUri, logPath)
createOrShow(logPath, ok) ==
    IF currentPanel
    THEN /\ panelWatcher' = IF Truthy(logPath) THEN startWatching(logPath, ok).watcher ELSE panelWatcher
         /\ currentLogPath' = IF Truthy(logPath) THEN startWatching(logPath, ok).currentLogPath ELSE currentLogPath
         /\ staleReads' = IF Truthy(logPath) THEN startWatching(logPath, ok).stale ELSE staleReads
         /\ UNCHANGED <<currentPanel, panelLogPath, lastSetPaused>>
    ELSE /\ currentPanel' = TRUE
         /\ panelLogPath' = logPath
         /\ lastSetPaused' = Null
         /\ UNCHANGED <<panelWatcher, currentLogPath, staleReads>>

\* the handler of the command winccoa-logviewer.open
OpenCommand(logPath, ok) ==
    LET resolvedPath == IF Truthy(logPath) THEN logPath ELSE DefaultLogPath
    IN /\ createOrShow(resolvedPath, ok)
       /\ lastArgument' = logPath
       /\ explicitPaths' = IF Truthy(logPath) THEN explicitPaths \cup {logPath} ELSE explicitPaths
       /\ UNCHANGED lastPost
       /\ UNCHANGED <<parserVars, watcherVars>>

\* the webview posts 'ready'
WebviewReady(ok) ==
    /\ currentPanel
    /\ panelWatcher' = IF Truthy(panelLogPath) THEN startWatching(panelLogPath, ok).watcher ELSE panelWatcher
    /\ currentLogPath' = IF Truthy(panelLogPath) THEN startWatching(panelLogPath, ok).currentLogPath ELSE currentLogPath
    /\ staleReads' = IF Truthy(panelLogPath) THEN startWatching(panelLogPath, ok).stale ELSE staleReads
    /\ UNCHANGED <<currentPanel, panelLogPath, lastArgument, explicitPaths, lastPost, lastSetPaused>>
    /\ UNCHANGED <<parserVars, watcherVars>>

\* the webview posts 'setPaused': LogViewerPanel.setPaused(paused), which does nothing
\* when there is no watcher
SetPaused(paused) ==
    /\ currentPanel
    /\ panelWatcher' = IF panelWatcher # Undefined THEN [panelWatcher EXCEPT !.paused = paused] ELSE panelWatcher
    /\ lastSetPaused' = [paused |-> paused]
    /\ UNCHANGED <<currentPanel, panelLogPath, currentLogPath, lastArgument, explicitPaths, staleReads, lastPost>>
    /\ UNCHANGED <<parserVars, watcherVars>>

\* a log file of the watched directory has grown and the watcher of the panel, initialized
\* and not paused, starts to read it
PanelFileChange ==
    /\ panelWatcher # Undefined
    /\ panelWatcher.started /\ ~panelWatcher.paused /\ ~panelWatcher.reading
    /\ staleReads < MaxStaleReads
    /\ panelWatcher' = [panelWatcher EXCEPT !.reading = TRUE]
    /\ UNCHANGED <<currentPanel, panelLogPath, currentLogPath, lastArgument, explicitPaths, staleReads, lastPost, lastSetPaused>>
    /\ UNCHANGED <<parserVars, watcherVars>>

\* the read of the watcher of the panel ends: its callback posts the event to the webview
PanelReadEnd ==
    /\ panelWatcher # Undefined
    /\ panelWatcher.reading
    /\ panelWatcher' = [panelWatcher EXCEPT !.reading = FALSE]
    /\ lastPost' = [stopped |-> ~panelWatcher.started]
    /\ UNCHANGED <<currentPanel, panelLogPath, currentLogPath, lastArgument, explicitPaths, staleReads, lastSetPaused>>
    /\ UNCHANGED <<parserVars, watcherVars>>

\* the read of a watcher that startWatching has stopped ends: its 'end' handler runs all
\* the same, and its callback posts the event to the webview of the panel
StaleReadEnd ==
    /\ currentPanel
    /\ staleReads > 0
    /\ staleReads' = staleReads - 1
    /\ lastPost' = [stopped |-> TRUE]
    /\ UNCHANGED <<currentPanel, panelLogPath, panelWatcher, currentLogPath, lastArgument, explicitPaths, lastSetPaused>>
    /\ UNCHANGED <<parserVars, watcherVars>>

\* the panel is closed: LogViewerPanel.dispose()
PanelDispose ==
    /\ currentPanel
    /\ currentPanel' = FALSE
    /\ panelLogPath' = Undefined
    /\ panelWatcher' = Undefined
    /\ currentLogPath' = Undefined
    /\ explicitPaths' = {}
    /\ staleReads' = 0
    /\ lastPost' = Null
    /\ lastSetPaused' = Null
    /\ UNCHANGED lastArgument
    /\ UNCHANGED <<parserVars, watcherVars>>

PanelNext ==
    \/ \E logPath \in Arguments, ok \in BOOLEAN : OpenCommand(logPath, ok)
    \/ \E ok \in BOOLEAN : WebviewReady(ok)
    \/ \E paused \in BOOLEAN : SetPaused(paused)
    \/ PanelFileChange
    \/ PanelReadEnd
    \/ StaleReadEnd
    \/ PanelDispose

PanelSpec == Init /\ [][PanelNext]_vars

\* ---------------------------------------------------- claims: LogParser

\* the text of a syntax-error message after the rewrite: "ERRORTYPE, DETAIL"
Rewritten(m) == trim(m.errorType) \o <<","," ">> \o trim(m.errorDetail)

\* C1: one-behind emission.  parseLine on a main line returns exactly the event that was
\* open before the call (its rawLines are the lines fed since the previous main line) and
\* nothing when none was open; the event the main line starts stays open, buffered as that
\* one line, and is what a flush() right after returns.
C1_OneBehind ==
    [][/\ (lastCall' = "parseLine" /\ IsMainLine(lastLine')) =>
            /\ Len(returned') = (IF segment = <<>> THEN 0 ELSE 1)
            /\ \A k \in 1..Len(returned') :
                 /\ returned'[k].rawLines = segment
                 /\ returned'[k].timestamp = parseMainLine(segment[1]).timestamp
            /\ parser'.currentEvent = parseMainLine(lastLine')
            /\ parser'.buffer = <<lastLine'>>
       /\ (lastCall = "parseLine" /\ IsMainLine(lastLine) /\ lastCall' = "flush") =>
            /\ Len(returned') = 1
            /\ returned'[1].rawLines = <<lastLine>>
            /\ returned'[1].timestamp = parseMainLine(lastLine).timestamp
      ]_vars

\* C1 witness: a second main line has just returned the event of the first one and its continuation
C1_Witness ==
    /\ lastCall = "parseLine" /\ IsMainLine(lastLine)
    /\ Len(returned) = 1
    /\ Len(returned[1].rawLines) >= 2
    /\ returned[1].rawLines[1] # lastLine

\* C7: every returned event has a non-empty identifier, and its rawLines are the main line
\* that opened it followed by exactly the lines fed while it was open, verbatim and in order.
C7_RawLinesVerbatim ==
    [][\A k \in 1..Len(returned') :
          /\ returned'[k].identifier # <<>>
          /\ segment # <<>>
          /\ IsMainLine(segment[1])
          /\ returned'[k].rawLines = segment
      ]_vars

\* C7 witness: a returned event whose rawLines hold a line ignored in stack-capture mode
C7_Witness ==
    /\ Len(returned) = 1
    /\ Len(returned[1].rawLines) = 3
    /\ returned[1].rawLines[2] = lineStacktrace
    /\ returned[1].rawLines[3] = lineFree

\* a metadata object that has at least one populated field
Populated(metadata) ==
    \E key \in DOMAIN metadata : key \in {"line", "stacktrace"} \/ metadata[key] # <<>>

\* C8: an emitted event carries metadata only if a field of it was populated; an object
\* whose fields are all empty is never attached.  (Violated: "Script:" with nothing after it.)
C8_NoEmptyMetadata ==
    \A k \in 1..Len(returned) : returned[k].metadata # Undefined => Populated(returned[k].metadata)

\* C9: flush() right after flush() returns nothing; after any flush() no event is open, and
\* lines that are not main lines, fed while no event is open, change nothing and return nothing.
C9_FlushIdempotent ==
    [][/\ (lastCall = "flush" /\ lastCall' = "flush") => returned' = <<>>
       /\ lastCall' = "flush" => parser'.currentEvent = Null /\ parser'.buffer = <<>>
       /\ (segment = <<>> /\ lastCall' = "parseLine" /\ ~IsMainLine(lastLine')) =>
            parser' = parser /\ returned' = <<>>
      ]_vars

\* C9 witness: flush() has returned nothing although the last line fed was a main line,
\* which only a flush() following the flush() that returned its event does
C9_Witness ==
    /\ lastCall = "flush" /\ returned = <<>>
    /\ IsMainLine(lastLine)
    /\ parser.currentEvent = Null

LastRange == (lastEnd.from + 1)..lastEnd.to

\* C2: between start() and stop() no byte of a file is passed to line processing twice, and
\* each read passes on exactly the bytes from the recorded offset to the size its
\* notification saw.  (Violated: growth during a read, or two notifications before the
\* first read ends.)
C2_NoByteTwice ==
    (lastEnd # Null /\ lastEnd.initialized) =>
        /\ LastRange \cap lastEnd.before = {}
        /\ lastEnd.to = lastEnd.currentSize

\* C3: for a file listed by start(), nothing below the size recorded then is passed to line
\* processing afterwards.  (Violated: a read of an earlier start() ending after this one, or
\* a file sharing its key with a shorter one.)
C3_OnlyAppendedBytes ==
    (lastEnd # Null /\ HasKey(inventory, lastEnd.name)) => lastEnd.from >= inventory[lastEnd.name]

\* C4: bytes appended while the engine is paused are never passed to line processing.
\* (Violated: the notification is handled after resume(), or a read ends during the pause.)
C4_PausedBytesSkipped ==
    lastEnd # Null => LastRange \cap pausedBytes[lastEnd.name] = {}

\* C5: the first notification handled for a file that start() did not list records the
\* file's size as its offset and starts no read.  (Violated: the file shares its key with
\* a listed one.)
C5_FirstSeenSkipped ==
    [][\A name \in LogFiles :
          (name \notin seen /\ name \in seen') =>
             /\ filePositions' = SetKey(filePositions, KeyOf(pathJoin(LogPath, name)), fileSize[name])
             /\ streams' = streams
      ]_vars

\* C6: once stop() has returned and until the next start(), no offset and no parser exists
\* and no event is delivered.  (Violated: the 'end' handler of a read in flight runs.)
C6_QuietAfterStop ==
    (DOMAIN inventory # {} /\ ~isInitialized /\ startPc = "idle") =>
        /\ filePositions = <<>>
        /\ parsers = <<>>
        /\ lastEnd # Null => (lastEnd.initialized \/ lastEnd.events = <<>>)

\* ------------------------------------------- claims: LogParser, metadata

\* the event open before a step is outside stack-capture mode: no Stacktrace: header
\* has arrived since its main line
NoHeaderYet == \A k \in 2..Len(segment) : trim(segment[k]) # <<"S","t","a","c","k","t","r","a","c","e",":">>

\* the digits a text starts with
LeadingDigits(text) == SubSeq(text, 1, RunEnd(text, 1, Digits) - 1)

\* the step feeds a continuation line to an open event
ContinuationStep == segment # <<>> /\ lastCall' = "parseLine" /\ ~IsMainLine(lastLine')

\* C11: outside stack-capture mode a continuation starting with Script: sets metadata.script
\* to the trimmed remainder, Library: sets metadata.library likewise, Line: sets
\* metadata.line to the leading integer of the remainder; each changes nothing else of the
\* metadata, so none adds to metadata.raw.  (Violated: the first continuation of an event
\* whose message is an inline syntax error is swallowed by the rewrite of the message.)
C11_ScriptLibraryLine ==
    [][(ContinuationStep /\ NoHeaderYet) =>
          LET trimmed == trim(lastLine')
              meta    == parser.currentEvent.metadata
              meta2   == parser'.currentEvent.metadata
              digits  == LeadingDigits(trim(substring(trimmed, 5)))
          IN /\ startsWith(trimmed, <<"S","c","r","i","p","t",":">>) => meta2 = SetKey(meta, "script", trim(substring(trimmed, 7)))
             /\ startsWith(trimmed, <<"L","i","b","r","a","r","y",":">>) => meta2 = SetKey(meta, "library", trim(substring(trimmed, 8)))
             /\ startsWith(trimmed, <<"L","i","n","e",":">>) =>
                    meta2 = IF digits # <<>> THEN SetKey(meta, "line", parseInt(digits)) ELSE meta
      ]_vars

\* the frame lines a caller feeds, as the spec reads them: index, function, path and line
\* exactly as printed
Printed(line) ==
    IF line = lineFrame1
    THEN [index |-> 1, functionName |-> <<"v","o","i","d"," ","f","(",")">>, filePath |-> <<"a",".","c","t","l">>, line |-> 5]
    ELSE [index |-> 2, functionName |-> <<"v","o","i","d"," ","g","(",")">>, filePath |-> <<"b",".","c","t","l">>, line |-> 9]
FrameLines == {lineFrame1, lineFrame2}

\* C12: a Stacktrace: header makes metadata.stacktrace present and empty; every frame line
\* fed to the event after a header is appended at the end of metadata.stacktrace with its
\* index, function name, path and line as printed, and nothing else of the metadata
\* changes; the finalized event carries the stacktrace as it was built.
C12_FramesInOrder ==
    [][/\ ContinuationStep =>
            LET meta  == parser.currentEvent.metadata
                meta2 == parser'.currentEvent.metadata
            IN /\ trim(lastLine') = <<"S","t","a","c","k","t","r","a","c","e",":">> => meta2 = SetKey(meta, "stacktrace", <<>>)
               /\ (~NoHeaderYet /\ lastLine' \in FrameLines) =>
                      meta2 = SetKey(meta, "stacktrace", Append(meta["stacktrace"], Printed(lastLine')))
       /\ \A k \in 1..Len(returned') :
            HasKey(parser.currentEvent.metadata, "stacktrace") =>
               /\ returned'[k].metadata # Undefined
               /\ returned'[k].metadata["stacktrace"] = parser.currentEvent.metadata["stacktrace"]
      ]_vars

\* C12 witness: a returned event with two frames in the order they were fed, the higher
\* index first
C12_Witness ==
    /\ Len(returned) = 1
    /\ returned[1].metadata # Undefined
    /\ HasKey(returned[1].metadata, "stacktrace")
    /\ returned[1].metadata["stacktrace"] = <<Printed(lineFrame2), Printed(lineFrame1)>>

\* C13: a line fed to an event before any Stacktrace: header of that event, a frame line
\* included, adds no stacktrace to it; stack-capture mode is on only while the open event
\* has had a header, and is off after every main line and after every flush(); an event
\* without a header is returned without a stacktrace.
C13_StackModePerEvent ==
    [][/\ (ContinuationStep /\ NoHeaderYet /\ trim(lastLine') # <<"S","t","a","c","k","t","r","a","c","e",":">>) =>
            /\ ~HasKey(parser'.currentEvent.metadata, "stacktrace")
            /\ ~parser'.stacktraceMode
       /\ (lastCall' = "parseLine" /\ IsMainLine(lastLine')) => ~parser'.stacktraceMode
       /\ lastCall' = "flush" => ~parser'.stacktraceMode
       /\ parser'.stacktraceMode => \E k \in 2..Len(segment') : trim(segment'[k]) = <<"S","t","a","c","k","t","r","a","c","e",":">>
       /\ \A k \in 1..Len(returned') :
            NoHeaderYet => (returned'[k].metadata = Undefined \/ ~HasKey(returned'[k].metadata, "stacktrace"))
      ]_vars

\* C13 witness: a returned event that was fed a frame line, then the header, then another
\* frame line, and holds the second frame only
C13_Witness ==
    /\ Len(returned) = 1
    /\ Len(returned[1].rawLines) = 4
    /\ returned[1].rawLines[2] = lineFrame1
    /\ returned[1].rawLines[3] = lineStacktrace
    /\ returned[1].metadata["stacktrace"] = <<Printed(lineFrame2)>>

\* the step is the 'end' handler of a stream
EndStep == Len(streams') < Len(streams) /\ lastError' = Null

Increasing(numbers) == \A k \in 1..(Len(numbers) - 1) : numbers[k] < numbers[k + 1]

LineNumbers(name, events) == [k \in 1..Len(events) |-> LineNumber(name, events[k])]

\* C14: the events that an 'end' handler delivers for a file open at lines of the file
\* that come, in the file's order, after the line of the event delivered last for that
\* file since start(), whichever of the file's reads ends first.
C14_InOrder ==
    [][EndStep =>
         Increasing(<<lastEmitted[lastEnd'.name]>> \o LineNumbers(lastEnd'.name, lastEnd'.events))
      ]_vars

\* the step is the 'error' handler of a stream
ErrorStep == Len(streams') < Len(streams) /\ lastError' # Null

\* C15: when the read of a growth range fails, the 'error' handler leaves the offset of
\* the file at the currentSize that the notification of that read saw.
C15_ErrorAdvancesOffset ==
    [][ErrorStep =>
         /\ HasKey(filePositions', lastError'.key)
         /\ filePositions'[lastError'.key] = lastError'.currentSize
      ]_vars

\* C16: after a start() that threw the error of the directory listing, the watcher is not
\* initialized, has no subscription, is not inside start(), and handleFileChange ignores
\* a notification for every log file, until the next start().
C16_FailedStartStaysUnstarted ==
    startError =>
        /\ ~isInitialized
        /\ ~watcher
        /\ startPc = "idle"
        /\ \A name \in LogFiles : FileChangeBranch(name) = "ignore"

\* C16 witness: start() threw after a session that was stopped, and a log file has grown
\* past the size that session listed
C16_Witness ==
    /\ startError
    /\ \E name \in DOMAIN inventory : fileSize[name] > inventory[name]

LinesOf(seq) == {seq[k] : k \in 1..Len(seq)}

\* the lines of the bytes that the 'end' handler of this step read
LinesRead(end) == LinesOf(split(SubSeq(Content(end.name), end.from + 1, end.to)))

\* C17: a stop() of an initialized watcher leaves it uninitialized, without subscription,
\* without offsets and without parsers, and delivers nothing; the start() that follows leaves
\* exactly the offsets of the log files listed then, each the size of such a file at that
\* moment; and an 'end' handler that finds no parser for its file delivers only events made
\* of lines it read itself, so the event a dropped parser held open is never delivered.
C17_StopClears ==
    [][/\ (isInitialized /\ ~isInitialized') =>
            /\ ~watcher'
            /\ filePositions' = <<>>
            /\ parsers' = <<>>
            /\ delivered' = delivered /\ lastEnd' = lastEnd
       /\ (startPc = "idle" /\ startPc' = "await") =>
            /\ DOMAIN filePositions' = {KeyOf(pathJoin(LogPath, name)) : name \in ListedLogs}
            /\ \A key \in DOMAIN filePositions' :
                 \E name \in ListedLogs : KeyOf(pathJoin(LogPath, name)) = key /\ filePositions'[key] = fileSize[name]
       /\ (EndStep /\ ~HasKey(parsers, KeyOf(pathJoin(LogPath, lastEnd'.name)))) =>
            \A k \in 1..Len(lastEnd'.events) : LinesOf(lastEnd'.events[k].rawLines) \subseteq LinesRead(lastEnd')
      ]_vars

\* C17 witness: stop() dropped a parser that held an event open, start() was called again,
\* and an 'end' handler has delivered events since
C17_Witness ==
    /\ heldAtStop # {}
    /\ isInitialized
    /\ parsers = <<>>
    /\ lastEnd # Null /\ lastEnd.events # <<>>

\* C18: the step in which handleFileChange returns at its first check changes no offset
\* and no parser, starts no read and delivers nothing; and while the watcher is not
\* initialized, outside the calls of its methods, only the 'end' handler of a read started
\* earlier changes an offset or a parser or delivers an event, and no read is started.
C18_IgnoredWhileUninitialized ==
    [][/\ (~ignored /\ ignored') =>
            /\ ~isInitialized
            /\ filePositions' = filePositions /\ parsers' = parsers
            /\ streams' = streams /\ reads' = reads
            /\ delivered' = delivered /\ lastEnd' = lastEnd
       /\ (~isInitialized /\ calls' = calls /\ ~EndStep) =>
            /\ filePositions' = filePositions /\ parsers' = parsers
            /\ Len(streams') <= Len(streams) /\ reads' = reads
            /\ delivered' = delivered
      ]_vars

\* C18 witness: after stop() a log file has grown past the size the session had listed, a
\* notification has been ignored, and there is no offset, parser or read
C18_Witness ==
    /\ ignored /\ ~isInitialized /\ ~startError
    /\ \E name \in DOMAIN inventory : fileSize[name] > inventory[name]
    /\ filePositions = <<>> /\ parsers = <<>> /\ streams = <<>>

\* the text between the (n-1)th and the nth comma of a line (to the end if there is no nth)
RECURSIVE Field(_, _)
Field(text, n) ==
    LET commas == {i \in 1..Len(text) : text[i] = ","}
        first  == IF commas = {} THEN Len(text) + 1 ELSE CHOOSE i \in commas : \A j \in commas : i <= j
    IN IF n = 1 THEN SubSeq(text, 1, first - 1)
       ELSE IF commas = {} THEN <<>>
       ELSE Field(SubSeq(text, first + 1, Len(text)), n - 1)

Severities == {"INFO", "WARNING", "ERROR", "SEVERE", "DEBUG", "OTHER"}
SeverityTokens == {<<<<"i","n","f","o">>, "INFO">>, <<<<"w","a","r","n","i","n","g">>, "WARNING">>, <<<<"e","r","r","o","r">>, "ERROR">>,
                   <<<<"s","e","v","e","r","e">>, "SEVERE">>, <<<<"d","e","b","u","g">>, "DEBUG">>}

\* C19: the severity of a returned event is one of the six values: the one whose name the
\* severity token of its main line (the fourth field) spells in any mix of cases, and OTHER
\* for every other token; and the line fed last, taken as a line of a generic file, gives
\* an event of severity OTHER.
C19_Severity ==
    /\ \A k \in 1..Len(returned) :
         LET token == toLowerCase(trim(Field(returned[k].rawLines[1], 4)))
         IN /\ returned[k].severity \in Severities
            /\ \A pair \in SeverityTokens : token = pair[1] => returned[k].severity = pair[2]
            /\ (\A pair \in SeverityTokens : token # pair[1]) => returned[k].severity = "OTHER"
    /\ parseGenericLogLine(lastLine, GenericName) # Null =>
         parseGenericLogLine(lastLine, GenericName).severity = "OTHER"

\* C19 witness: a returned event whose main line spells its severity in lower case, after
\* the line fed last was one that makes a generic event
C19_Witness ==
    /\ Len(returned) = 1
    /\ trim(Field(returned[1].rawLines[1], 4)) = <<"s","e","v","e","r","e">>
    /\ returned[1].severity = "SEVERE"
    /\ parseGenericLogLine(lastLine, GenericName) # Null

\* C20: a watcher of the panel watches a log path that an execution of the command passed
\* since the panel was created; after executions without a logPath there is none.
C20_NoAutoWatch ==
    panelWatcher # Undefined => panelWatcher.logPath \in explicitPaths

\* the non-empty lines of the bytes that the 'end' handler of this step split
FedLines(end) == LinesOf(nonEmpty(split(SubSeq(Content(end.name), end.from + 1, end.to))))

\* C21: every line that an 'end' handler of the primary file passes on to the parser is a
\* whole line of the file, also when the line was appended in two writes.
C21_WholeLines ==
    [][(EndStep /\ lastEnd'.name = PrimaryName) =>
         FedLines(lastEnd') \subseteq LinesOf(split(Content(PrimaryName)))
      ]_vars

\* C22: no two reads of the same file (the same key) are in flight at the same time.
C22_OneReadPerFile ==
    \A i, j \in 1..Len(streams) : i # j => streams[i].key # streams[j].key

\* start() is suspended at its await and stop() has run since it was suspended: start()
\* has set an offset for every listed log file (there always is one), and of the steps
\* possible during the await only stop() empties the map
StoppedInAwait == startPc = "await" /\ filePositions = <<>>

\* C23: when stop() has run while start() was suspended at its await, the watcher is not
\* initialized and has no subscription once start() has finished.
C23_StopDuringStart ==
    [][(StoppedInAwait /\ startPc' = "idle") => (~isInitialized' /\ ~watcher')]_vars

ExistingLogs == {name \in LogFiles : fileSize[name] # Absent}

\* C24: the 'end' handler of a read of one file leaves the offset and the parser of every
\* other log file of the directory as they were.
C24_OtherFilesUntouched ==
    [][EndStep =>
         \A name \in ExistingLogs \ {lastEnd'.name} :
            LET key == KeyOf(pathJoin(LogPath, name))
            IN /\ HasKey(filePositions, key) =>
                    (HasKey(filePositions', key) /\ filePositions'[key] = filePositions[key])
               /\ HasKey(parsers, key) => (HasKey(parsers', key) /\ parsers'[key] = parsers[key])
      ]_vars

\* the bytes (1-based offsets) of the range whose read failed last
FailedRange == (lastError.from + 1)..lastError.currentSize

\* C25: the 'error' handler of a read delivers nothing and leaves the flag, the
\* subscription, the parsers and the other reads as they were; and when the read that
\* finished last for a file failed, no byte of its range is passed to line processing by
\* the 'end' handler that follows.
C25_FailureIsLocal ==
    [][/\ ErrorStep =>
            /\ delivered' = delivered /\ lastEnd' = lastEnd
            /\ isInitialized' = isInitialized /\ watcher' = watcher
            /\ parsers' = parsers
            /\ \E i \in 1..Len(streams) : streams' = RemoveAt(streams, i)
       /\ (EndStep /\ lastError # Null /\ lastError.name = lastEnd'.name) =>
            ((lastEnd'.from + 1)..lastEnd'.to) \cap FailedRange = {}
      ]_vars

\* C26: while the watcher is initialized and paused, a step that changes an offset without
\* ending a read sets the offset of one file to its current size and changes no parser,
\* starts no read and delivers nothing; no read starts while paused; and a step that
\* changes the paused flag changes nothing else of the watcher.
C26_PausedAdvancesOnly ==
    [][/\ (isInitialized /\ isPaused /\ calls' = calls /\ streams' = streams /\ filePositions' # filePositions) =>
            /\ \E name \in ExistingLogs :
                 filePositions' = SetKey(filePositions, KeyOf(pathJoin(LogPath, name)), fileSize[name])
            /\ parsers' = parsers /\ reads' = reads
            /\ delivered' = delivered /\ lastEnd' = lastEnd
       /\ (isInitialized /\ isPaused /\ calls' = calls) => Len(streams') <= Len(streams)
       /\ isPaused' # isPaused =>
            <<fileSize, isInitialized, watcher, filePositions, parsers, startPc, streams>>'
               = <<fileSize, isInitialized, watcher, filePositions, parsers, startPc, streams>>
      ]_vars

\* C26 witness: paused, and the offset of a listed file stands at its size, past the size
\* start() listed, although no read was ever started
C26_Witness ==
    /\ isInitialized /\ isPaused /\ reads = 0
    /\ \E name \in DOMAIN inventory :
         /\ fileSize[name] > inventory[name]
         /\ HasKey(filePositions, KeyOf(pathJoin(LogPath, name)))
         /\ filePositions[KeyOf(pathJoin(LogPath, name))] = fileSize[name]

\* C27: a step that is not a call of a method and ends no read (a notification among
\* them) lowers no offset, changes no parser and delivers nothing; a read is started only
\* from the recorded offset and only when the size is above it; and for a known file
\* whose size is not above its offset handleFileChange returns at the size check, paused
\* or not.
C27_NoGrowthNoOp ==
    [][/\ (calls' = calls /\ Len(streams') >= Len(streams)) =>
            /\ \A key \in DOMAIN filePositions :
                 HasKey(filePositions', key) /\ filePositions'[key] >= filePositions[key]
            /\ parsers' = parsers /\ delivered' = delivered
       /\ Len(streams') > Len(streams) =>
            LET s == streams'[Len(streams')]
            IN s.lastPosition < s.currentSize /\ s.lastPosition = filePositions[s.key]
       /\ \A name \in ExistingLogs :
            LET key == KeyOf(pathJoin(LogPath, name))
            IN (isInitialized /\ HasKey(filePositions, key) /\ fileSize[name] <= filePositions[key]) =>
                  FileChangeBranch(name) = "no-growth"
      ]_vars

\* C27 witness: initialized and paused, with a known file that is smaller than its offset
C27_Witness ==
    /\ isInitialized /\ isPaused
    /\ \E name \in ExistingLogs :
         /\ HasKey(filePositions, KeyOf(pathJoin(LogPath, name)))
         /\ fileSize[name] < filePositions[KeyOf(pathJoin(LogPath, name))]
         /\ FileChangeBranch(name) = "no-growth"

\* C28: parseLine on a line that is not a main line, called while no event is open,
\* returns nothing and leaves the parser exactly as it was (no open event, the same buffer
\* and flag), so that nothing returned later depends on the line; and the raw lines of
\* every returned event begin with the main line that opened it.
C28_OrphanDiscarded ==
    [][/\ (lastCall' = "parseLine" /\ ~IsMainLine(lastLine') /\ parser.currentEvent = Null) =>
            /\ returned' = <<>>
            /\ parser' = parser
            /\ parser'.currentEvent = Null
       /\ \A k \in 1..Len(returned') : IsMainLine(returned'[k].rawLines[1])
      ]_vars

\* C28 witness: a Script: line has just been fed to a parser with no open event
C28_Witness ==
    /\ lastCall = "parseLine" /\ lastLine = lineScript
    /\ parser.currentEvent = Null /\ parser.buffer = <<>> /\ ~parser.stacktraceMode
    /\ returned = <<>>

\* C29: parseLine returns at most one event, and none for a line that is not a main line,
\* which also leaves an open event open; an event is returned only by parseLine on a main
\* line or by flush().
C29_AtMostOne ==
    [][/\ lastCall' = "parseLine" =>
            /\ Len(returned') <= 1
            /\ ~IsMainLine(lastLine') =>
                 /\ returned' = <<>>
                 /\ parser.currentEvent # Null => parser'.currentEvent # Null
       /\ returned' # <<>> => (lastCall' = "flush" \/ IsMainLine(lastLine'))
      ]_vars

\* C29 witness: a blank line has been fed to an open event in stack-capture mode and has
\* returned nothing
C29_Witness ==
    /\ lastCall = "parseLine" /\ lastLine = lineBlank
    /\ parser.currentEvent # Null /\ parser.stacktraceMode
    /\ returned = <<>>

\* a parseLine step that feeds a continuation line to an event open in stack-capture mode
StackModeStep ==
    /\ lastCall' = "parseLine" /\ ~IsMainLine(lastLine')
    /\ parser.currentEvent # Null /\ parser.stacktraceMode

\* C30 as claimed: in stack-capture mode every continuation line that is not frame-shaped
\* leaves the open event as it was, is only appended to the buffered raw lines, returns
\* nothing and leaves the mode on.
C30_NonFrameIgnored ==
    [][(StackModeStep /\ stackMatch(trim(lastLine')) = Null) =>
          /\ parser'.currentEvent = parser.currentEvent
          /\ parser'.buffer = Append(parser.buffer, lastLine')
          /\ parser'.stacktraceMode
          /\ returned' = <<>>
      ]_vars

\* C30 amended: in stack-capture mode a continuation line that is neither frame-shaped nor
\* the Stacktrace: header leaves the open event as it was and is only appended to the
\* buffered raw lines; a repeated Stacktrace: header empties the captured stacktrace and
\* changes nothing else of the event; every continuation line leaves the mode on and
\* returns nothing.
C30_NonFrameNonHeaderIgnored ==
    [][StackModeStep =>
          /\ (stackMatch(trim(lastLine')) = Null /\ trim(lastLine') # <<"S","t","a","c","k","t","r","a","c","e",":">>) =>
                parser'.currentEvent = parser.currentEvent
          /\ trim(lastLine') = <<"S","t","a","c","k","t","r","a","c","e",":">> =>
                parser'.currentEvent =
                    [parser.currentEvent EXCEPT !.metadata = SetKey(parser.currentEvent.metadata, "stacktrace", <<>>)]
          /\ parser'.buffer = Append(parser.buffer, lastLine')
          /\ parser'.stacktraceMode
          /\ returned' = <<>>
      ]_vars

\* C30 witness: a Script: line fed after the header and one frame has left the metadata
\* with the one frame and no script
C30_Witness ==
    /\ lastCall = "parseLine" /\ lastLine = lineScript
    /\ parser.currentEvent # Null /\ parser.stacktraceMode
    /\ Len(parser.buffer) = 4 /\ parser.buffer[4] = lineScript
    /\ DOMAIN parser.currentEvent.metadata = {"stacktrace"}
    /\ Len(parser.currentEvent.metadata["stacktrace"]) = 1

\* ------------------------------------------- claims: raw text, routing, offsets

\* a continuation line that none of the rules before the last one of parseMetadataLine is
\* written for: not the header, not of the syntax-error shape, no Script:, Library: or Line:
Unrecognized(line) ==
    LET trimmed == trim(line)
    IN /\ trimmed # <<>>
       /\ trimmed # <<"S","t","a","c","k","t","r","a","c","e",":">>
       /\ syntaxMatch(trimmed) = Null
       /\ ~startsWith(trimmed, <<"S","c","r","i","p","t",":">>)
       /\ ~startsWith(trimmed, <<"L","i","b","r","a","r","y",":">>)
       /\ ~startsWith(trimmed, <<"L","i","n","e",":">>)

\* the trimmed unrecognised lines among these, joined with "\n"
RECURSIVE JoinRaw(_)
JoinRaw(lines) ==
    IF lines = <<>> THEN <<>>
    ELSE LET rest == JoinRaw(Tail(lines))
         IN IF ~Unrecognized(Head(lines)) THEN rest
            ELSE IF rest = <<>> THEN trim(Head(lines))
            ELSE trim(Head(lines)) \o <<"\n">> \o rest

\* metadata.raw of an event, the empty text when it has none
RawOf(event) ==
    IF event.metadata = Undefined \/ ~HasKey(event.metadata, "raw") THEN <<>> ELSE event.metadata["raw"]

\* an event with no Stacktrace: header and no line of the syntax-error shape among its
\* continuation lines
PlainEvent(event) ==
    \A k \in 2..Len(event.rawLines) :
        trim(event.rawLines[k]) # <<"S","t","a","c","k","t","r","a","c","e",":">> /\ syntaxMatch(trim(event.rawLines[k])) = Null

\* C31: the raw text of an event that never entered stack-capture mode is the newline-join
\* of its trimmed continuation lines that match no recognised shape, in arrival order;
\* blank lines add nothing.  (Violated: the first continuation line after a main line whose
\* message holds the whole syntax error.)
C31_RawIsJoin ==
    \A k \in 1..Len(returned) :
        PlainEvent(returned[k]) => RawOf(returned[k]) = JoinRaw(Tail(returned[k].rawLines))


\* the lines among these that hold more than white space
RECURSIVE NonBlank(_)
NonBlank(lines) ==
    IF lines = <<>> THEN <<>>
    ELSE IF trim(Head(lines)) = <<>> THEN NonBlank(Tail(lines))
    ELSE <<Head(lines)>> \o NonBlank(Tail(lines))

\* the non-blank lines of the bytes that the 'end' handler of this step was given
ReadLines(end) == NonBlank(split(SubSeq(Content(end.name), end.from + 1, end.to)))

\* C32: only the primary file has a parser; the 'end' handler of a read of any other file
\* creates none and emits one generic event for each non-blank line of the read, in the
\* order of the lines, with that line as message and as its only raw line.
C32_RoutingByName ==
    [][/\ DOMAIN parsers' \subseteq {KeyOf(pathJoin(LogPath, PrimaryName))}
       /\ (EndStep /\ lastEnd'.name = PrimaryName) => HasKey(parsers', KeyOf(pathJoin(LogPath, PrimaryName)))
       /\ (EndStep /\ lastEnd'.name # PrimaryName) =>
            /\ parsers' = parsers
            /\ Len(lastEnd'.events) = Len(ReadLines(lastEnd'))
            /\ \A k \in 1..Len(lastEnd'.events) :
                 /\ lastEnd'.events[k].identifier = <<"G","E","N","E","R","I","C">>
                 /\ lastEnd'.events[k].message = ReadLines(lastEnd')[k]
                 /\ lastEnd'.events[k].rawLines = <<ReadLines(lastEnd')[k]>>
      ]_vars

\* C32 witness: a read of a.log has emitted a generic event while the primary file holds
\* the only parser
C32_Witness ==
    /\ lastEnd # Null /\ lastEnd.name = GenericName
    /\ Len(lastEnd.events) >= 1
    /\ lastEnd.events[1].identifier = <<"G","E","N","E","R","I","C">>
    /\ DOMAIN parsers = {KeyOf(pathJoin(LogPath, PrimaryName))}

\* C33: while the engine stays initialized, no step lowers the recorded offset of the
\* primary file, whose key no other file of the directory shares.  (Violated: a read
\* started before pause() ends after a paused notification has advanced the offset, or
\* two reads end in the other order.)
C33_OffsetMonotone ==
    [][(isInitialized /\ isInitialized') =>
          LET key == KeyOf(pathJoin(LogPath, PrimaryName))
          IN (HasKey(filePositions, key) /\ HasKey(filePositions', key)) =>
                filePositions'[key] >= filePositions[key]
      ]_vars

\* C34: while the engine is initialized, the number of events delivered for the primary
\* file since start() is the number of main lines fed to its parser since then, less one
\* (zero when none was fed).  (Violated: the parser that a read of the previous run created
\* after stop() holds an open event at start().)
C34_OneLessThanMainLines ==
    isInitialized => emitted = (IF fedMain = 0 THEN 0 ELSE fedMain - 1)

\* the non-blank lines of the primary file once it is fully written
PrimaryLines == NonBlank(split(Content(PrimaryName)))

\* lines is a contiguous run of the lines of the primary file
IsRun(lines) ==
    \E first \in 1..Len(PrimaryLines) :
        /\ first + Len(lines) - 1 <= Len(PrimaryLines)
        /\ lines = SubSeq(PrimaryLines, first, first + Len(lines) - 1)

\* C35: the raw lines of every event delivered for the primary file are a contiguous run of
\* the non-blank lines of the file, the first of them a main line and none of the others.
\* (Violated: a second read of the same bytes attaches a line that precedes the main line.)
C35_RawLinesContiguous ==
    (lastEnd # Null /\ lastEnd.name = PrimaryName) =>
        \A k \in 1..Len(lastEnd.events) :
            LET lines == lastEnd.events[k].rawLines
            IN /\ IsRun(lines)
               /\ IsMainLine(lines[1])
               /\ \A j \in 2..Len(lines) : ~IsMainLine(lines[j])

\* ------------------------------------------------------- claims: parseLogFile

\* the raw lines of these events, one after the other
RECURSIVE AllRawLines(_)
AllRawLines(events) ==
    IF events = <<>> THEN <<>> ELSE Head(events).rawLines \o AllRawLines(Tail(events))

\* C36: parseLogFile returns as many events as the text has main lines, and the raw lines
\* of the events, one after the other, are the lines of the text from the first main line on.
C36_Conservation ==
    fileEvents # Null =>
        LET lines == splitNewline(joinLines(fileLines))
            mains == {k \in 1..Len(lines) : IsMainLine(lines[k])}
        IN /\ Len(fileEvents.events) = Cardinality(mains)
           /\ AllRawLines(fileEvents.events) =
                 (IF mains = {} THEN <<>>
                  ELSE SubSeq(lines, CHOOSE k \in mains : \A j \in mains : k <= j, Len(lines)))

\* C36 witness: a text of a free line, a main line and its continuation has given one
\* event, without the free line
C36_Witness ==
    /\ fileLines = <<lineFree, mainWarning, lineScript>>
    /\ fileEvents # Null
    /\ Len(fileEvents.events) = 1
    /\ fileEvents.events[1].rawLines = <<mainWarning, lineScript>>

\* ------------------------------------------------- claims: repeated header

\* the frames, as printed, of the frame lines among these
RECURSIVE PrintedFrames(_)
PrintedFrames(lines) ==
    IF lines = <<>> THEN <<>>
    ELSE IF Head(lines) \in FrameLines THEN <<Printed(Head(lines))>> \o PrintedFrames(Tail(lines))
    ELSE PrintedFrames(Tail(lines))

\* the positions of the Stacktrace: headers among the raw lines of an event
Headers(event) == {k \in 2..Len(event.rawLines) : trim(event.rawLines[k]) = <<"S","t","a","c","k","t","r","a","c","e",":">>}

\* C37: a Stacktrace: header fed in stack-capture mode empties metadata.stacktrace and
\* leaves the mode on; the stacktrace of a returned event holds exactly the frame lines
\* that followed the last header of the event, in order.
C37_LastHeaderWins ==
    [][/\ (ContinuationStep /\ parser.stacktraceMode /\ trim(lastLine') = <<"S","t","a","c","k","t","r","a","c","e",":">>) =>
            /\ parser'.stacktraceMode
            /\ parser'.currentEvent.metadata["stacktrace"] = <<>>
       /\ \A k \in 1..Len(returned') :
            Headers(returned'[k]) # {} =>
               LET last == CHOOSE h \in Headers(returned'[k]) : \A g \in Headers(returned'[k]) : g <= h
               IN returned'[k].metadata["stacktrace"] =
                     PrintedFrames(SubSeq(returned'[k].rawLines, last + 1, Len(returned'[k].rawLines)))
      ]_vars

\* C37 witness: a returned event with a header, a frame and a second header, and an empty
\* stacktrace
C37_Witness ==
    /\ Len(returned) = 1
    /\ returned[1].rawLines = <<returned[1].rawLines[1], lineStacktrace, lineFrame1, lineStacktrace>>
    /\ returned[1].metadata["stacktrace"] = <<>>

\* ------------------------------------------------------- claims: the panel

\* C38: no event of a watcher that the panel has stopped is posted to the webview.
\* (Violated: the read that was in flight when startWatching stopped the watcher ends.)
C38_StoppedWatcherSilent ==
    lastPost # Null => ~lastPost.stopped

\* C39: the watcher of the panel, once started, is paused exactly when the last
\* 'setPaused' message said so.  (Violated: a watcher created after the message.)
C39_PausedAsLastMessage ==
    (panelWatcher # Undefined /\ panelWatcher.started /\ lastSetPaused # Null) =>
        panelWatcher.paused = lastSetPaused.paused

\* ------------------------------------------------- claims: parser invariants

\* C40: in every state of a LogParser the buffer holds lines exactly when an event is open,
\* and the stack-capture flag is set only when an event is open whose metadata has a
\* stacktrace.
C40_BufferAndFlag ==
    /\ (parser.buffer # <<>>) <=> (parser.currentEvent # Null)
    /\ parser.stacktraceMode =>
          /\ parser.currentEvent # Null
          /\ HasKey(parser.currentEvent.metadata, "stacktrace")

\* C40 witness: a flush() has just returned an event that was in stack-capture mode, and
\* has left the parser with no event, no lines and the flag off
C40_Witness ==
    /\ lastCall = "flush" /\ Len(returned) = 1
    /\ returned[1].metadata # Undefined /\ HasKey(returned[1].metadata, "stacktrace")
    /\ parser.buffer = <<>> /\ parser.currentEvent = Null /\ ~parser.stacktraceMode
====
